---- MODULE Spec2Model ----
(***************************************************************************)
(* Scan orchestration engine of langgraph-stream: the scan record store    *)
(* (db.py), the ScanProcessor pipeline (services/scan_processor.py), the   *)
(* legacy /ws pipeline (routes/websocket.py) and the entry points that     *)
(* resolve an identity and create scans (routes/scans.py,                  *)
(* routes/socketio_handler.py, routes/websocket.py).                       *)
(***************************************************************************)
EXTENDS Integers, Sequences, FiniteSets, TLC

VARIABLES
    scans,      \* record store, table 'scans': scan id -> row
    run,        \* per scan: the background unit of work processing it
    events,     \* per scan: events emitted to room scan_<id>, in emission order
    sioSess,    \* Socket.io connection -> its sio.session(sid) dictionary
    wsConn,     \* legacy /ws connection -> its state and WebSocketSession
    minted,     \* number of session ids minted by generate_session_id / uuid4
    lastOp,     \* the most recent entry-point request: its inputs and its answer
    rooms,      \* per scan: the Socket.io connections in room scan_<id>
    inbox,      \* per connection and scan: the events of the scan it was sent
    joins,      \* number of 'join' and 'leave' messages handled so far
    fetch,      \* the call of capture_screenshot in progress, with its retries
    cache,      \* the screenshot cache directory: key -> cache file
    now,        \* time.time(), in seconds
    call,       \* the helper function called last: its arguments and its result
    websites    \* record store, table 'websites': its rows in insertion order

vars == <<scans, run, events, sioSess, wsConn, minted, lastOp,
          rooms, inbox, joins, fetch, cache, now, call, websites>>

accVars == <<sioSess, wsConn, minted, lastOp>>

hubVars == <<rooms, inbox, joins>>

capVars == <<fetch, cache, now>>

----------------------------------------------------------------------------
(* Bounds of the model *)

MaxScans == 2
MaxRunning == 1
MaxMinted == 1
MaxJoins == 1
MaxResults == 2

----------------------------------------------------------------------------
(* Values *)

\* Python None in a column or a dictionary entry
NULL == "null"
\* Optional[int]: None is the empty tuple, the integer n is <<n>>
NONE == <<>>
Some(n) == <<n>>

ScanIds == 1..MaxScans

\* elapsed wall-clock time in ms, int((end_time - start_time) * 1000)
ElapsedMs == {0, 7}

\* messages of the exceptions the pipeline can see
MSG_FAILED_CAPTURE == "Failed to capture screenshot"
MSG_STEEL_UNAVAILABLE == "Steel.dev service is temporarily unavailable. Please try again in a moment."
MSG_STEEL_AUTH == "Steel.dev API authentication failed. Please check your API key."
MSG_STEEL_RATE == "Steel.dev rate limit exceeded. Please wait a moment before trying again."
MSG_STEEL_OTHER ==
    "Failed to capture screenshot: Failed to capture screenshot after 3 attempts: Unknown response format from Steel.dev"
MSG_EMIT == "socket transport error"
MSG_STORE == "record store error"
MSG_INFERENCE == "inference backend error"
MSG_UPLOAD == "Could not connect to the endpoint URL"
MSG_SEARCH == "SERPAPI_KEY environment variable is not set"

\* identities known to the token verifier, and the bearer tokens callers present
Users == {"u1", "u2"}
Tokens == {"tok_u1", "tok_u2", "tok_bad"}

\* session ids that clients supply
ClientSessions == {"s1"}

SioConns == {"c1"}

\* the search engines queried through SerpAPI
Engines == {"google", "bing"}
WsConns == {"w1"}

\* what capture_screenshot raises (its except clause re-raises one of these)
CaptureErrors == {MSG_STEEL_UNAVAILABLE, MSG_STEEL_AUTH, MSG_STEEL_RATE, MSG_STEEL_OTHER}

----------------------------------------------------------------------------
(* Urls (utils.py) and rankings (services/search.py) *)

\* the ASCII letters, for str.lower() and str.isalpha()
UpperLetters == "ABCDEFGHIJKLMNOPQRSTUVWXYZ"
LowerLetters == "abcdefghijklmnopqrstuvwxyz"

\* ch.lower() of one character
LowerChar(ch) ==
    IF \E i \in 1..Len(UpperLetters) : SubSeq(UpperLetters, i, i) = ch
    THEN LET i == CHOOSE i \in 1..Len(UpperLetters) : SubSeq(UpperLetters, i, i) = ch
         IN  SubSeq(LowerLetters, i, i)
    ELSE ch

RECURSIVE Lower(_)
Lower(str) ==
    IF Len(str) = 0 THEN ""
    ELSE LowerChar(SubSeq(str, 1, 1)) \o Lower(SubSeq(str, 2, Len(str)))

\* str.strip() of blanks
RECURSIVE Strip(_)
Strip(str) ==
    IF Len(str) > 0 /\ SubSeq(str, 1, 1) = " " THEN Strip(SubSeq(str, 2, Len(str)))
    ELSE IF Len(str) > 0 /\ SubSeq(str, Len(str), Len(str)) = " "
         THEN Strip(SubSeq(str, 1, Len(str) - 1))
         ELSE str

\* the first position of sub in str at or after position from, or 0
FindFrom(str, sub, from) ==
    LET hits == {i \in from..(Len(str) - Len(sub) + 1) :
                    SubSeq(str, i, i + Len(sub) - 1) = sub}
    IN  IF hits = {} THEN 0 ELSE CHOOSE i \in hits : \A j \in hits : i <= j

\* str[from:] and str.startswith(prefix)
From(str, from) == SubSeq(str, from, Len(str))
StartsWith(str, prefix) ==
    Len(str) >= Len(prefix) /\ SubSeq(str, 1, Len(prefix)) = prefix

\* the characters urllib allows in a scheme (scheme_chars), the first a letter
IsAlpha(ch) == LowerChar(ch) # ch \/ (\E i \in 1..Len(LowerLetters) : SubSeq(LowerLetters, i, i) = ch)
IsSchemeChar(ch) == IsAlpha(ch) \/ ch \in {"0", "1", "2", "3", "4", "5", "6", "7", "8", "9", "+", "-", "."}

\* the position of the ':' that ends the scheme of url, or 0: the characters
\* before it are those urllib allows in a scheme
SchemeEnd(url) ==
    LET colon == FindFrom(url, ":", 1)
    IN  IF /\ colon > 1
           /\ IsAlpha(SubSeq(url, 1, 1))
           /\ \A i \in 1..(colon - 1) : IsSchemeChar(SubSeq(url, i, i))
        THEN colon ELSE 0

\* the position after the netloc of rest, which starts with '//': that of the
\* next '/', '?' or '#', or the end
NetlocEnd(rest) ==
    LET delims == {i \in 3..Len(rest) : SubSeq(rest, i, i) \in {"/", "?", "#"}}
    IN  IF delims = {} THEN Len(rest) + 1
        ELSE CHOOSE i \in delims : \A j \in delims : i <= j

\* the query after the first '?' of what is left
SplitQuery(scheme, netloc, rest, fragment) ==
    LET qmark == FindFrom(rest, "?", 1)
    IN  [scheme |-> scheme,
         netloc |-> netloc,
         path |-> IF qmark = 0 THEN rest ELSE SubSeq(rest, 1, qmark - 1),
         query |-> IF qmark = 0 THEN "" ELSE From(rest, qmark + 1),
         fragment |-> fragment]

\* the fragment after the first '#' of what follows the netloc
SplitFragment(scheme, netloc, rest, hash) ==
    SplitQuery(scheme, netloc,
               IF hash = 0 THEN rest ELSE SubSeq(rest, 1, hash - 1),
               IF hash = 0 THEN "" ELSE From(rest, hash + 1))

\* the netloc between a leading '//' and the next '/', '?' or '#'
SplitNetloc(scheme, rest, end) ==
    IF StartsWith(rest, "//")
    THEN SplitFragment(scheme, SubSeq(rest, 3, end - 1), From(rest, end),
                       FindFrom(From(rest, end), "#", 1))
    ELSE SplitFragment(scheme, "", rest, FindFrom(rest, "#", 1))

\* the scheme (lowercased by urlparse) up to the ':' at position colon
SplitScheme(url, colon) ==
    IF colon > 0
    THEN SplitNetloc(Lower(SubSeq(url, 1, colon - 1)), From(url, colon + 1),
                     NetlocEnd(From(url, colon + 1)))
    ELSE SplitNetloc("", url, NetlocEnd(url))

\* urllib.parse.urlparse(url) for urls without ';' parameters, brackets, tabs or
\* line ends: the scheme, the netloc, then the fragment and the query
urlparse(url) == SplitScheme(url, SchemeEnd(url))

\* the schemes of urllib.parse.uses_netloc that occur in the model
uses_netloc == {"http", "https", "ftp"}

\* urlunsplit puts '//' before a netloc, and before the path of a scheme that
\* uses one when the path does not start with '//'
UnsplitNetloc(parsed) ==
    IF \/ parsed.netloc # ""
       \/ parsed.scheme \in uses_netloc /\ ~StartsWith(parsed.path, "//")
    THEN "//" \o parsed.netloc
              \o (IF parsed.path # "" /\ ~StartsWith(parsed.path, "/") THEN "/" ELSE "")
              \o parsed.path
    ELSE parsed.path

\* a part of the url is written with its separator when it is not empty
Prefixed(part, separator, url) == IF part # "" THEN part \o separator \o url ELSE url
Suffixed(url, separator, part) == IF part # "" THEN url \o separator \o part ELSE url

\* ParseResult.geturl(): the scheme with ':', the netloc and the path, and the
\* query and the fragment, each without its '?' or '#' when it is empty
geturl(parsed) ==
    Suffixed(Suffixed(Prefixed(parsed.scheme, ":", UnsplitNetloc(parsed)),
                      "?", parsed.query),
             "#", parsed.fragment)

\* normalize_url(url): strip, parse, the scheme and the netloc in lower case,
\* the other components as they are, and the url put together again
normalize_url(url) ==
    LET parsed == urlparse(Strip(url))
    IN  geturl([parsed EXCEPT !.scheme = Lower(@), !.netloc = Lower(@)])

\* validate_url(url): a scheme and a netloc, the scheme http or https
validate_url(url) ==
    LET result == urlparse(url)
    IN  result.scheme # "" /\ result.netloc # "" /\ result.scheme \in {"http", "https"}

\* urlparse(normalize_url(url)).netloc.lower() without a leading 'www.'
netloc_key(url) ==
    LET netloc == Lower(urlparse(normalize_url(url)).netloc)
    IN  IF StartsWith(netloc, "www.") THEN From(netloc, 5) ELSE netloc

\* find_url_ranking(url, organic_results), each result given by its 'link'
\* ("" when it has none): the 1-based position of the first result whose
\* netloc key is that of url, or None
find_url_ranking(url, organic_results) ==
    LET hits == {i \in 1..Len(organic_results) :
                    /\ organic_results[i] # ""
                    /\ netloc_key(organic_results[i]) = netloc_key(url)}
    IN  IF hits = {} THEN NONE ELSE Some(CHOOSE i \in hits : \A j \in hits : i <= j)

----------------------------------------------------------------------------
(* Record store: table 'scans' (db.py) *)

\* create_scan inserting the row as already processing
create_scan_processing(user_id, session_id) ==
    [status |-> "processing",
     user_id |-> user_id,
     session_id |-> session_id,
     scan_data |-> NULL,
     error_message |-> NULL,
     processing_time_ms |-> NONE,
     completed_at |-> NULL]

\* create_scan: the inserted row; user_id / session_id are set only when truthy
create_scan(user_id, session_id) ==
    [status |-> "pending",
     user_id |-> user_id,
     session_id |-> session_id,
     scan_data |-> NULL,
     error_message |-> NULL,
     processing_time_ms |-> NONE,
     completed_at |-> NULL]

\* an insert into 'websites' that does not look for a row with the url first
create_website_without_lookup(table, url, domain) ==
    Append(table, [url |-> url, domain |-> domain])

\* create_or_get_website: the table is left alone when it has a row with this
\* url, and gets a new row otherwise
create_or_get_website(table, url, domain) ==
    IF \E i \in 1..Len(table) : table[i].url = url
    THEN table
    ELSE Append(table, [url |-> url, domain |-> domain])

\* update_scan_status testing its arguments for truth instead of 'is not None':
\* an elapsed time of 0 ms and an empty message are then left out of update_data
update_scan_status_truthy(row, status, scan_data, error_message, processing_time_ms) ==
    [row EXCEPT
        !.status = status,
        !.scan_data = IF scan_data # NULL THEN scan_data ELSE @,
        !.error_message = IF error_message \notin {NULL, ""} THEN error_message ELSE @,
        !.processing_time_ms = IF processing_time_ms \notin {NONE, Some(0)}
                               THEN processing_time_ms ELSE @,
        !.completed_at = IF status = "completed" THEN "utcnow" ELSE @]

\* update_scan_status: the row after UPDATE ... WHERE id = scan_id; a column is
\* part of update_data only when its argument is not None
update_scan_status(row, status, scan_data, error_message, processing_time_ms) ==
    [row EXCEPT
        !.status = status,
        !.scan_data = IF scan_data # NULL THEN scan_data ELSE @,
        !.error_message = IF error_message # NULL THEN error_message ELSE @,
        !.processing_time_ms = IF processing_time_ms # NONE THEN processing_time_ms ELSE @,
        !.completed_at = IF status = "completed" THEN "utcnow" ELSE @]

Created == DOMAIN scans

----------------------------------------------------------------------------
(* ScanProcessor (services/scan_processor.py) *)

\* the Socket.io connections: the ones that submit scans and the ones that only watch
Watchers == {"c2"}
Conns == SioConns \cup Watchers

\* a delivery that puts the newest event in front of the ones sent before
DeliverNewestFirst(inb, members, s, i) ==
    [c \in DOMAIN inb |->
        IF c \in members THEN [inb[c] EXCEPT ![s] = <<i>> \o @] ELSE inb[c]]

\* what the members of a room are sent: the event with emission number i of scan s
Deliver(inb, members, s, i) ==
    [c \in DOMAIN inb |->
        IF c \in members THEN [inb[c] EXCEPT ![s] = Append(@, i)] ELSE inb[c]]

\* sio.emit(event, data) without its room argument: the event goes to every
\* connection
EmitBroadcast(s, ev) ==
    /\ events' = [events EXCEPT ![s] = Append(@, ev)]
    /\ inbox' = Deliver(inbox, DOMAIN inbox, s, Len(events[s]) + 1)

\* await self.sio.emit(event, data, room=f'scan_{scan_id}'): the event goes to
\* the connections that are in the room of the scan when it is emitted
Emit(s, ev) ==
    /\ events' = [events EXCEPT ![s] = Append(@, ev)]
    /\ inbox' = Deliver(inbox, rooms[s], s, Len(events[s]) + 1)

\* payloads of the events sent with sio.emit(..., room='scan_<id>')
ProgressEvent(percent) == [kind |-> "scan:progress", percent |-> percent]
OtherEvent(kind, body) == [kind |-> kind, body |-> body]

\* the percentages with the one after the website analysis mistyped
ProgressPercentMistyped ==
    [emit10 |-> 10, cap_emit15 |-> 15, cap_emit30 |-> 30,
     wf_emit35 |-> 35, wf_emit60 |-> 6, wf_emit65 |-> 65,
     wf_emit75 |-> 75, wf_emit80 |-> 80, wf_emit95 |-> 95, emit100 |-> 100]

\* the emit_progress calls of process_scan and its helpers: position -> percent
ProgressPercent ==
    [emit10 |-> 10, cap_emit15 |-> 15, cap_emit30 |-> 30,
     wf_emit35 |-> 35, wf_emit60 |-> 60, wf_emit65 |-> 65,
     wf_emit75 |-> 75, wf_emit80 |-> 80, wf_emit95 |-> 95, emit100 |-> 100]

ProgressPcs == DOMAIN ProgressPercent

\* positions inside the try block of _capture_and_emit_screenshot
CapturePcs ==
    {"cap_loading", "cap_emit15", "cap_begin", "cap_capture", "cap_emit30", "cap_emit_shot"}

\* the statement that follows each position when it does not raise
SpNextPc(pc, mode) ==
    CASE pc = "set_processing" -> "emit10"
      [] pc = "emit10" -> "cap_loading"
      [] pc = "cap_loading" -> "cap_emit15"
      [] pc = "cap_emit15" -> "cap_begin"
      [] pc = "cap_begin" -> "cap_capture"
      [] pc = "cap_capture" -> "cap_emit30"
      [] pc = "cap_emit30" -> "cap_emit_shot"
      [] pc = "cap_emit_shot" -> "cap_upload"
      [] pc = "cap_upload" -> IF mode = "structured" THEN "wf_emit35" ELSE "stream"
      [] pc = "wf_emit35" -> "wf_analyze"
      [] pc = "wf_analyze" -> "wf_emit60"
      [] pc = "wf_emit60" -> "wf_emit65"
      [] pc = "wf_emit65" -> "wf_search"
      [] pc = "wf_search" -> "wf_gather"
      [] pc = "wf_gather" -> "wf_emit75"
      [] pc = "wf_emit75" -> "wf_emit80"
      [] pc = "wf_emit80" -> "wf_seo"
      [] pc = "wf_seo" -> "wf_emit95"
      [] pc = "wf_emit95" -> "set_completed"
      [] pc = "stream" -> "set_completed"
      [] pc = "set_completed" -> "emit100"
      [] pc = "emit100" -> "emit_completed"
      [] pc = "emit_completed" -> "done"
      [] pc = "handler" -> "emit_failed"
      [] pc = "emit_failed" -> "done"
      [] OTHER -> "done"

\* the statement reached when the one at pc raises an exception with message msg:
\* inside _capture_and_emit_screenshot the exception is swallowed, the helper
\* returns None and process_scan raises MSG_FAILED_CAPTURE; inside the except
\* block of process_scan the exception leaves process_scan
SpRaise(r, msg) ==
    [r EXCEPT
        !.pc = IF r.pc \in {"handler", "emit_failed"} THEN "raised" ELSE "handler",
        !.exc = IF r.pc \in CapturePcs THEN MSG_FAILED_CAPTURE ELSE msg,
        !.cause = IF @ = NULL THEN msg ELSE @,
        !.raisedAt = IF @ = NULL THEN r.pc ELSE @]

SpAdvance(r) == [r EXCEPT !.pc = SpNextPc(r.pc, r.mode)]

SpRunning(s) == s \in Created /\ run[s].kind = "sp"

\* steel_client.screenshot(url=url) is a synchronous call made on the event
\* loop: while a scan is in it, the loop runs no other coroutine and no handler
EventLoopBlocked == \E s \in Created : run[s].kind = "sp" /\ run[s].pc = "cap_capture"

\* the coroutine of the scan can be resumed: no other scan holds the event loop
SpScheduled(s) ==
    /\ SpRunning(s)
    /\ \A other \in Created \ {s} :
           ~(run[other].kind = "sp" /\ run[other].pc = "cap_capture")

\* update_scan_status(scan_id, 'processing')
SpSetProcessing(s) ==
    /\ SpScheduled(s) /\ run[s].pc = "set_processing"
    /\ \/ /\ scans' = [scans EXCEPT ![s] = update_scan_status(@, "processing", NULL, NULL, NONE)]
          /\ run' = [run EXCEPT ![s] = SpAdvance(@)]
       \/ /\ run' = [run EXCEPT ![s] = SpRaise(@, MSG_STORE)]
          /\ UNCHANGED scans
    /\ UNCHANGED <<call, websites, events, accVars, hubVars, capVars>>

\* emit_progress(scan_id, percent, message)
SpEmitProgress(s) ==
    /\ SpScheduled(s) /\ run[s].pc \in ProgressPcs
    /\ \/ /\ Emit(s, ProgressEvent(ProgressPercent[run[s].pc]))
          /\ run' = [run EXCEPT ![s] = SpAdvance(@)]
       \/ /\ run' = [run EXCEPT ![s] = SpRaise(@, MSG_EMIT)]
          /\ UNCHANGED <<call, websites, events, inbox>>
    /\ UNCHANGED <<call, websites, scans, accVars, rooms, joins, capVars>>

\* emit_screenshot_loading(scan_id)
SpEmitScreenshotLoading(s) ==
    /\ SpScheduled(s) /\ run[s].pc = "cap_loading"
    /\ \/ /\ Emit(s, OtherEvent("scan:screenshot_loading", NULL))
          /\ run' = [run EXCEPT ![s] = SpAdvance(@)]
       \/ /\ run' = [run EXCEPT ![s] = SpRaise(@, MSG_EMIT)]
          /\ UNCHANGED <<call, websites, events, inbox>>
    /\ UNCHANGED <<call, websites, scans, accVars, rooms, joins, capVars>>

\* capture_screenshot(url) is entered: the screenshot is in the cache, or
\* fetch_screenshot_with_retry calls steel_client.screenshot
SpCaptureCall(s) ==
    /\ SpScheduled(s) /\ run[s].pc = "cap_begin"
    /\ \/ run' = [run EXCEPT ![s].pc = "cap_emit30"]
       \/ run' = [run EXCEPT ![s] = SpAdvance(@)]
    /\ UNCHANGED <<call, websites, scans, events, accVars, hubVars, capVars>>

\* capture_screenshot(url): a base64 screenshot, or one of its exceptions
SpCapture(s) ==
    /\ SpScheduled(s) /\ run[s].pc = "cap_capture"
    /\ \/ run' = [run EXCEPT ![s] = SpAdvance(@)]
       \/ \E msg \in CaptureErrors : run' = [run EXCEPT ![s] = SpRaise(@, msg)]
    /\ UNCHANGED <<call, websites, scans, events, accVars, hubVars, capVars>>

\* emit_screenshot(scan_id, screenshot_base64): the compressed preview, or the
\* original when compression (or the first emit) raised; the fallback emit
\* itself may raise
SpEmitScreenshot(s) ==
    /\ SpScheduled(s) /\ run[s].pc = "cap_emit_shot"
    /\ \/ /\ Emit(s, OtherEvent("scan:screenshot", "jpeg"))
          /\ run' = [run EXCEPT ![s] = SpAdvance(@)]
       \/ /\ run' = [run EXCEPT ![s] = SpRaise(@, MSG_EMIT)]
          /\ UNCHANGED <<call, websites, events, inbox>>
    /\ UNCHANGED <<call, websites, scans, accVars, rooms, joins, capVars>>

\* what the S3 upload of the screenshot can do: upload_to_s3 returns True,
\* returns False (a ClientError it caught), or the conversion or the upload raises
UploadOutcomes == {"uploaded", "false", "raised"}

\* the S3 upload without the try/except around it: its exception is raised in
\* _capture_and_emit_screenshot like that of any other step
SpUploadFatal(s) ==
    /\ SpScheduled(s) /\ run[s].pc = "cap_upload"
    /\ \E outcome \in UploadOutcomes :
          run' = [run EXCEPT ![s] =
                     IF outcome = "raised"
                     THEN SpRaise([@ EXCEPT !.upload = outcome], MSG_UPLOAD)
                     ELSE SpAdvance([@ EXCEPT !.upload = outcome])]
    /\ UNCHANGED <<call, websites, scans, events, accVars, hubVars, capVars>>

\* the S3 upload of _capture_and_emit_screenshot: uploaded, refused (False) or
\* raised; every outcome is logged and the helper returns the screenshot
SpUpload(s) ==
    /\ SpScheduled(s) /\ run[s].pc = "cap_upload"
    /\ \E outcome \in UploadOutcomes :
          run' = [run EXCEPT ![s] = SpAdvance([@ EXCEPT !.upload = outcome])]
    /\ UNCHANGED <<call, websites, scans, events, accVars, hubVars, capVars>>

\* the states of a search call that has handed a list back
SearchFinished == {"returned", "errored"}

\* the url of the scans, and the links of the organic results of each engine
ScanUrl == "http://Example.com/path"
EngineResults ==
    [google |-> <<"https://a.com/", "https://www.example.com/other">>,
     bing |-> <<"https://www.example.com/other">>]

\* the list a finished search call hands back
SearchResults(e, state) == IF state = "returned" THEN EngineResults[e] ELSE <<>>

\* the arguments of analyze_seo_node: what the gather returned for each engine
\* and the rankings find_url_ranking computed from it
SeoArguments(search) ==
    [results |-> [e \in Engines |-> SearchResults(e, search[e])],
     ranking |-> [e \in Engines |->
                     find_url_ranking(ScanUrl, SearchResults(e, search[e]))]]

\* the calls to the backends in _run_structured_workflow and in streaming mode:
\* analyze_website_node, analyze_seo_node, astream_events
SpBackendCall(s) ==
    /\ SpScheduled(s) /\ run[s].pc \in {"wf_analyze", "wf_seo", "stream"}
    /\ LET r == IF run[s].pc = "wf_seo"
                THEN [run[s] EXCEPT !.seo = Some(SeoArguments(run[s].search))]
                ELSE run[s]
       IN  \/ run' = [run EXCEPT ![s] = SpAdvance(r)]
           \/ run' = [run EXCEPT ![s] = SpRaise(r, MSG_INFERENCE)]
    /\ UNCHANGED <<call, websites, scans, events, accVars, hubVars, capVars>>

\* asyncio.gather(..., return_exceptions=True): waits for every call and hands
\* their exceptions back as results
gather_return_exceptions(search) ==
    IF \A e \in Engines : search[e] \in SearchFinished \cup {"raised"}
    THEN "returned" ELSE "pending"

\* asyncio.gather(a, b): raises the first exception of a call as soon as it is
\* raised (the other call goes on), and returns once every call has returned
gather(search) ==
    IF \E e \in Engines : search[e] = "raised" THEN "raised"
    ELSE IF \A e \in Engines : search[e] \in SearchFinished THEN "returned"
    ELSE "pending"

\* asyncio.gather(asyncio.to_thread(search_google, ...), asyncio.to_thread(search_bing, ...)):
\* both calls are handed to worker threads before the pipeline waits
SpStartSearches(s) ==
    /\ SpScheduled(s) /\ run[s].pc = "wf_search"
    /\ run' = [run EXCEPT ![s] = [SpAdvance(@) EXCEPT !.search = [e \in Engines |-> "running"]]]
    /\ UNCHANGED <<call, websites, scans, events, accVars, hubVars, capVars>>

\* search_google / search_bing in its worker thread: returns its results,
\* catches an error of SerpAPI and returns an empty list ("errored"), or raises
\* (SERPAPI_KEY is not set)
SpSearchEnds(s) ==
    /\ SpRunning(s)
    /\ \E e \in Engines, outcome \in SearchFinished \cup {"raised"} :
           /\ run[s].search[e] = "running"
           /\ run' = [run EXCEPT ![s].search[e] = outcome]
    /\ UNCHANGED <<call, websites, scans, events, accVars, hubVars, capVars>>

\* the await of the gather resumes: with the results of both searches, or with
\* the exception of the one that raised
SpGather(s) ==
    /\ SpScheduled(s) /\ run[s].pc = "wf_gather"
    /\ gather(run[s].search) # "pending"
    /\ run' = [run EXCEPT ![s] =
                  IF gather(run[s].search) = "raised" THEN SpRaise(@, MSG_SEARCH) ELSE SpAdvance(@)]
    /\ UNCHANGED <<call, websites, scans, events, accVars, hubVars, capVars>>

\* update_scan_status(scan_id, 'completed', scan_data=..., processing_time_ms=...)
SpSetCompleted(s) ==
    /\ SpScheduled(s) /\ run[s].pc = "set_completed"
    /\ \/ /\ \E ms \in ElapsedMs :
                scans' = [scans EXCEPT ![s] =
                             update_scan_status(@, "completed", run[s].mode, NULL, Some(ms))]
          /\ run' = [run EXCEPT ![s] = SpAdvance(@)]
       \/ /\ run' = [run EXCEPT ![s] = SpRaise(@, MSG_STORE)]
          /\ UNCHANGED scans
    /\ UNCHANGED <<call, websites, events, accVars, hubVars, capVars>>

\* emit_completed raising after the room was sent the event
SpEmitCompletedThenRaise(s) ==
    /\ SpScheduled(s) /\ run[s].pc = "emit_completed"
    /\ Emit(s, OtherEvent("scan:completed", run[s].mode))
    /\ \/ run' = [run EXCEPT ![s] = SpAdvance(@)]
       \/ run' = [run EXCEPT ![s] = SpRaise(@, MSG_EMIT)]
    /\ UNCHANGED <<call, websites, scans, accVars, rooms, joins, capVars>>

\* emit_completed(scan_id, scan_data)
SpEmitCompleted(s) ==
    /\ SpScheduled(s) /\ run[s].pc = "emit_completed"
    /\ \/ /\ Emit(s, OtherEvent("scan:completed", run[s].mode))
          /\ run' = [run EXCEPT ![s] = SpAdvance(@)]
       \/ /\ run' = [run EXCEPT ![s] = SpRaise(@, MSG_EMIT)]
          /\ UNCHANGED <<call, websites, events, inbox>>
    /\ UNCHANGED <<call, websites, scans, accVars, rooms, joins, capVars>>

\* the except block going on to emit_failed when its write of 'failed' raised
SpHandlerSwallowing(s) ==
    /\ SpScheduled(s) /\ run[s].pc = "handler"
    /\ \/ scans' = [scans EXCEPT ![s] =
                        update_scan_status(@, "failed", NULL, run[s].exc, NONE)]
       \/ UNCHANGED scans
    /\ run' = [run EXCEPT ![s] = SpAdvance(@)]
    /\ UNCHANGED <<call, websites, events, accVars, hubVars, capVars>>

\* except Exception as e: update_scan_status(scan_id, 'failed', error_message=str(e))
SpHandler(s) ==
    /\ SpScheduled(s) /\ run[s].pc = "handler"
    /\ \/ /\ scans' = [scans EXCEPT ![s] =
                          update_scan_status(@, "failed", NULL, run[s].exc, NONE)]
          /\ run' = [run EXCEPT ![s] = SpAdvance(@)]
       \/ /\ run' = [run EXCEPT ![s] = SpRaise(@, MSG_STORE)]
          /\ UNCHANGED scans
    /\ UNCHANGED <<call, websites, events, accVars, hubVars, capVars>>

\* emit_failed(scan_id, error_message)
SpEmitFailed(s) ==
    /\ SpScheduled(s) /\ run[s].pc = "emit_failed"
    /\ \/ /\ Emit(s, OtherEvent("scan:failed", run[s].exc))
          /\ run' = [run EXCEPT ![s] = SpAdvance(@)]
       \/ /\ run' = [run EXCEPT ![s] = SpRaise(@, MSG_EMIT)]
          /\ UNCHANGED <<call, websites, events, inbox>>
    /\ UNCHANGED <<call, websites, scans, accVars, rooms, joins, capVars>>

process_scan(s) ==
    \/ SpSetProcessing(s)
    \/ SpEmitProgress(s)
    \/ SpEmitScreenshotLoading(s)
    \/ SpCaptureCall(s)
    \/ SpCapture(s)
    \/ SpEmitScreenshot(s)
    \/ SpUpload(s)
    \/ SpBackendCall(s)
    \/ SpStartSearches(s)
    \/ SpSearchEnds(s)
    \/ SpGather(s)
    \/ SpSetCompleted(s)
    \/ SpEmitCompleted(s)
    \/ SpHandler(s)
    \/ SpEmitFailed(s)

----------------------------------------------------------------------------
(* Identity (db.py, routes) *)

\* verify_clerk_token: the user id of a valid session token; None for a token
\* that does not verify and when the verifier raises
verify_clerk_token(token) ==
    CASE token = "tok_u1" -> "u1"
      [] token = "tok_u2" -> "u2"
      [] OTHER -> NULL

\* get_user_id_from_auth_header: the header carries 'Bearer <token>' or is absent
get_user_id_from_auth_header(token) ==
    IF token = NULL THEN NULL ELSE verify_clerk_token(token)

\* generate_session_id / str(uuid.uuid4()): a session id never seen before
generate_session_id == "g" \o ToString(minted + 1)

\* the session id an anonymous caller ends up with: provided_session_id or a new one
SessionOrNew(provided) == IF provided # NULL THEN provided ELSE generate_session_id

CanMint(provided) == provided # NULL \/ minted < MaxMinted

Mint(provided) == minted' = IF provided # NULL THEN minted ELSE minted + 1

\* RPC claim_anonymous_scans(p_session_id, p_user_id): one UPDATE that gives
\* every scan of the session that has no user to the user, and returns how many
claim_anonymous_scans(table, p_session_id, p_user_id) ==
    LET unclaimed == {s \in DOMAIN table :
                        table[s].session_id = p_session_id /\ table[s].user_id = NULL}
    IN  [table |-> [s \in DOMAIN table |->
                      IF s \in unclaimed
                      THEN [table[s] EXCEPT !.user_id = p_user_id]
                      ELSE table[s]],
         data |-> Cardinality(unclaimed)]

\* claim_user_scans returning the number of scans of the session instead of
\* the number the RPC transferred
claim_user_scans_all(table, session_id, user_id) ==
    LET response == claim_anonymous_scans(table, session_id, user_id)
    IN  [table |-> response.table,
         count |-> Cardinality({s \in DOMAIN table : table[s].session_id = session_id})]

\* claim_user_scans: calls the RPC and returns response.data
claim_user_scans(table, session_id, user_id) ==
    LET response == claim_anonymous_scans(table, session_id, user_id)
    IN  [table |-> response.table, count |-> response.data]

\* can_access_scan(scan_id, user_id, session_id)
can_access_scan(table, scan_id, user_id, session_id) ==
    IF scan_id \notin DOMAIN table
    THEN FALSE
    ELSE LET scan == table[scan_id]
         IN  IF user_id # NULL /\ scan.user_id = user_id
             THEN TRUE
             ELSE IF session_id # NULL /\ scan.session_id # NULL
                     /\ scan.session_id = session_id
                  THEN TRUE
                  ELSE FALSE

\* get_scan_by_id: the row of the scan when can_access_scan grants access
get_scan_by_id(table, scan_id, user_id, session_id) ==
    IF ~can_access_scan(table, scan_id, user_id, session_id)
    THEN NONE
    ELSE IF scan_id \in DOMAIN table THEN Some(table[scan_id]) ELSE NONE

\* the scan ids of S from the most recent to the oldest: ids are given in the
\* order of creation, which is the order of created_at
MostRecentFirst(S) ==
    [i \in 1..Cardinality(S) |->
        CHOOSE s \in S : Cardinality({x \in S : x > s}) = i - 1]

\* query.range(offset, offset + limit - 1): the rows at these 0-based positions
Range(rows, first, last) ==
    SubSeq(rows, first + 1, IF last + 1 < Len(rows) THEN last + 1 ELSE Len(rows))

\* list_user_scans with order('created_at', desc=False)
list_user_scans_oldest_first(table, user_id, limit, offset, status) ==
    LET matching == {s \in DOMAIN table :
                        /\ table[s].user_id = user_id
                        /\ status \notin {NULL, ""} => table[s].status = status}
        oldest_first == [i \in 1..Cardinality(matching) |->
                            CHOOSE s \in matching :
                                Cardinality({x \in matching : x < s}) = i - 1]
    IN  [scans |-> Range(oldest_first, offset, offset + limit - 1),
         total |-> Cardinality(matching)]

\* list_user_scans: the scans of the user, with the status when one is given,
\* ordered by created_at descending, and of these the rows of the range; the
\* total is the count of the rows before the range is applied
list_user_scans(table, user_id, limit, offset, status) ==
    LET matching == {s \in DOMAIN table :
                        /\ table[s].user_id = user_id
                        /\ status \notin {NULL, ""} => table[s].status = status}
    IN  [scans |-> Range(MostRecentFirst(matching), offset, offset + limit - 1),
         total |-> Cardinality(matching)]

----------------------------------------------------------------------------
(* Screenshot cache and capture (services/cache.py, services/screenshot.py) *)

CACHE_TTL_SECONDS == 3600
STEEL_MAX_RETRIES == 3
STEEL_RETRY_DELAYS == <<1, 2, 4>>

\* sub in str
Contains(str, sub) ==
    \E i \in 1..(Len(str) - Len(sub) + 1) : SubSeq(str, i, i + Len(sub) - 1) = sub

\* the urls whose screenshot is captured
Urls == {"HTTP://A.com/P", " http://a.com/P"}

\* the instants at which the clock is read
Instants == {0, 1, CACHE_TTL_SECONDS, CACHE_TTL_SECONDS + 1}

\* screenshots the capture backend produces, as bytes
Images == {"png1", "png2"}

\* base64.b64encode(screenshot_bytes).decode('utf-8')
b64encode(bytes) == "b64(" \o bytes \o ")"

\* the file of a key in the cache directory: absent, rejected by json.load or
\* by the lookup of its fields, or the file written by json.dump(cache_data, f)
NoFile == [kind |-> "none", url |-> NULL, timestamp |-> 0, base64 |-> NULL]
CORRUPT == [kind |-> "corrupt", url |-> NULL, timestamp |-> 0, base64 |-> NULL]
CacheFile(url, timestamp, base64) ==
    [kind |-> "json", url |-> url, timestamp |-> timestamp, base64 |-> base64]

\* an entry of the cache directory: the file of the key and, while the last
\* operation on the key is a save, the arguments and the time of that save
CacheEntry(file, saved) == [file |-> file, saved |-> saved]

\* the keys of the cache: the normalized urls
Keys == {normalize_url(u) : u \in Urls}

\* the expiry test of get_cached_screenshot with the comparison turned around
IsExpiredInclusive(timestamp, t) == t - timestamp >= CACHE_TTL_SECONDS

\* age = time.time() - cache_data['timestamp']; age > CACHE_TTL_SECONDS
IsExpired(timestamp, t) == t - timestamp > CACHE_TTL_SECONDS

\* get_cached_screenshot leaving the file of an expired entry in place
get_cached_screenshot_keep(c, url, t, io) ==
    LET seen == [c EXCEPT ![url].saved = NONE]
    IN  IF c[url].file.kind = "none" \/ io = "error" \/ c[url].file.kind = "corrupt"
        THEN [cache |-> seen, result |-> NULL]
        ELSE IF IsExpired(c[url].file.timestamp, t)
             THEN [cache |-> seen, result |-> NULL]
             ELSE [cache |-> seen, result |-> c[url].file.base64]

\* get_cached_screenshot(url) at time t: the cache after it and what it returns;
\* io says whether the file operations it needs (open, json.load, unlink) work
get_cached_screenshot(c, url, t, io) ==
    LET seen == [c EXCEPT ![url].saved = NONE]
    IN  IF c[url].file.kind = "none"
        THEN [cache |-> seen, result |-> NULL]
        ELSE IF io = "error" \/ c[url].file.kind = "corrupt"
             THEN [cache |-> seen, result |-> NULL]
             ELSE IF IsExpired(c[url].file.timestamp, t)
                  THEN [cache |-> [seen EXCEPT ![url].file = NoFile], result |-> NULL]
                  ELSE [cache |-> seen, result |-> c[url].file.base64]

\* save_screenshot_to_cache opening the file for exclusive creation, so that
\* the entry of an earlier writer is kept
save_screenshot_to_cache_once(c, url, base64_data, t, io) ==
    LET file == CASE io = "ok" /\ c[url].file.kind = "none"
                        -> CacheFile(url, t, base64_data)
                  [] io = "torn" -> CORRUPT
                  [] OTHER -> c[url].file
    IN  [c EXCEPT ![url] = CacheEntry(file, <<[base64 |-> base64_data, at |-> t,
                                               io |-> io]>>)]

\* save_screenshot_to_cache(url, base64_data) at time t: the cache after it;
\* io = "error" is mkdir or open raising (the file of the key is as before),
\* io = "torn" is json.dump raising after open truncated the file
save_screenshot_to_cache(c, url, base64_data, t, io) ==
    LET file == CASE io = "ok" -> CacheFile(url, t, base64_data)
                  [] io = "torn" -> CORRUPT
                  [] OTHER -> c[url].file
    IN  [c EXCEPT ![url] = CacheEntry(file, <<[base64 |-> base64_data, at |-> t,
                                               io |-> io]>>)]

\* cleanup_expired_cache removing every cache file it can read
cleanup_expired_cache_all(c, t, unreadable) ==
    LET removed == {k \in DOMAIN c : c[k].file.kind = "json" /\ k \notin unreadable}
    IN  [cache |-> [k \in DOMAIN c |->
                        IF k \in removed THEN CacheEntry(NoFile, NONE) ELSE c[k]],
         count |-> Cardinality(removed)]

\* cleanup_expired_cache() at time t: the cache after it and the count it
\* returns; unreadable holds the keys whose file operations (open, json.load,
\* unlink) raise, which the loop passes over as it does over corrupt files
cleanup_expired_cache(c, t, unreadable) ==
    LET removed == {k \in DOMAIN c : /\ c[k].file.kind = "json"
                                     /\ k \notin unreadable
                                     /\ IsExpired(c[k].file.timestamp, t)}
    IN  [cache |-> [k \in DOMAIN c |->
                        IF k \in removed THEN CacheEntry(NoFile, NONE) ELSE c[k]],
         count |-> Cardinality(removed)]

\* messages of the exceptions of the capture backend: status errors of the
\* Steel API, a network error
BackendErrors ==
    {"Error code: 500", "Error code: 503", "Error code: 401", "Error code: 429",
     "Connection error."}

MSG_UNKNOWN_FORMAT == "Unknown response format from Steel.dev"
MSG_NO_STEEL_KEY == "STEEL_API_KEY environment variable is not set"

\* messages of the exceptions of the download of the screenshot url
DownloadErrors ==
    {"Server error '500 Internal Server Error' for url", "Client error '404 Not Found' for url"}

\* is_retryable with the rate-limit status among the retried ones
is_retryable_429(error_msg) ==
    \/ Contains(error_msg, "500") \/ Contains(error_msg, "502")
    \/ Contains(error_msg, "503") \/ Contains(error_msg, "504")
    \/ Contains(error_msg, "429")

\* is_retryable = '500' in error_msg or '502' in error_msg or ...
is_retryable(error_msg) ==
    \/ Contains(error_msg, "500") \/ Contains(error_msg, "502")
    \/ Contains(error_msg, "503") \/ Contains(error_msg, "504")

\* the message of the exception fetch_screenshot_with_retry raises after its loop
fetch_error_message(last_error) ==
    "Failed to capture screenshot after " \o ToString(STEEL_MAX_RETRIES)
        \o " attempts: " \o last_error

\* the message of the exception the except clause of capture_screenshot raises
capture_error_message(error_detail) ==
    IF Contains(error_detail, "500") \/ Contains(error_detail, "Internal Server Error")
    THEN MSG_STEEL_UNAVAILABLE
    ELSE IF Contains(error_detail, "401") \/ Contains(error_detail, "403")
         THEN MSG_STEEL_AUTH
         ELSE IF Contains(error_detail, "429")
              THEN MSG_STEEL_RATE
              ELSE "Failed to capture screenshot: " \o error_detail

\* callers of capture_screenshot
CapIds == {"p1"}

NoFetch ==
    [pc |-> "idle", url |-> NULL, key |-> NULL, ws |-> FALSE,
     attempt |-> 0, calls |-> 0, delays |-> <<>>, errors |-> <<>>,
     read |-> NULL, found |-> NoFile, cached |-> NULL, shot |-> NULL,
     result |-> NULL, exc |-> NULL]

pipeVars == <<scans, run, events>>

\* the delay before the retry, with the index of the attempt that follows
RetryDelayOfNext(attempt) == STEEL_RETRY_DELAYS[attempt + 1]

\* STEEL_RETRY_DELAYS[attempt - 1] of the 0-based Python list, attempt >= 1
RetryDelay(attempt) == STEEL_RETRY_DELAYS[attempt]

\* the except clause of capture_screenshot: the exception it raises
CaptureRaise(r, error_detail) ==
    [r EXCEPT !.pc = "raised", !.exc = capture_error_message(error_detail)]

\* the except clause of the retry loop for an exception with message msg: the
\* next attempt, or the end of the loop and the exception raised after it
FetchFail(r, msg) ==
    LET failed == [r EXCEPT !.errors = Append(@, msg)]
    IN  IF ~is_retryable(msg) \/ r.attempt = STEEL_MAX_RETRIES - 1
        THEN CaptureRaise(failed, fetch_error_message(msg))
        ELSE [failed EXCEPT !.attempt = @ + 1,
                            !.pc = IF r.ws THEN "f_retry_send" ELSE "f_sleep"]

CapStep(p, r) ==
    /\ fetch' = [fetch EXCEPT ![p] = r]
    /\ UNCHANGED <<call, websites, pipeVars, accVars, hubVars, now>>

\* capture_screenshot(url, websocket) is called
capture_start(p, url, ws) ==
    /\ fetch[p].pc \in {"idle", "returned", "raised"}
    /\ CapStep(p, [NoFetch EXCEPT !.pc = "c_get", !.url = url,
                                  !.key = normalize_url(url), !.ws = ws])
    /\ UNCHANGED cache

\* CapGet going on to the capture backend whatever the lookup returned
CapGetAlwaysFetch(p) ==
    /\ fetch[p].pc = "c_get"
    /\ \E io \in {"ok", "error"} :
          LET g == get_cached_screenshot(cache, fetch[p].key, now, io)
          IN  /\ cache' = g.cache
              /\ CapStep(p, [fetch[p] EXCEPT !.read = io, !.cached = g.result,
                                             !.pc = "c_client"])

\* cached_screenshot = get_cached_screenshot(normalized_url); if cached_screenshot:
CapGet(p) ==
    /\ fetch[p].pc = "c_get"
    /\ \E io \in {"ok", "error"} :
          LET g == get_cached_screenshot(cache, fetch[p].key, now, io)
              hit == g.result \notin {NULL, ""}
          IN  /\ cache' = g.cache
              /\ CapStep(p, [fetch[p] EXCEPT
                                !.read = io,
                                !.found = cache[fetch[p].key].file,
                                !.cached = g.result,
                                !.result = IF hit /\ ~fetch[p].ws THEN g.result ELSE @,
                                !.pc = IF hit
                                       THEN IF fetch[p].ws THEN "c_send_cached" ELSE "returned"
                                       ELSE "c_client"])

\* websocket.send_json("Using cached screenshot..."); return cached_screenshot
CapSendCached(p) ==
    /\ fetch[p].pc = "c_send_cached"
    /\ \/ CapStep(p, [fetch[p] EXCEPT !.pc = "returned", !.result = fetch[p].cached])
       \/ CapStep(p, [fetch[p] EXCEPT !.pc = "raised", !.exc = MSG_EMIT])
    /\ UNCHANGED cache

\* steel_client = get_steel_client(), then the first attempt of the loop
CapClient(p) ==
    /\ fetch[p].pc = "c_client"
    /\ \/ CapStep(p, [fetch[p] EXCEPT
                         !.pc = IF fetch[p].ws THEN "f_contact_send" ELSE "f_call"])
       \/ CapStep(p, CaptureRaise(fetch[p], MSG_NO_STEEL_KEY))
    /\ UNCHANGED cache

\* websocket.send_json("Retrying screenshot capture (attempt ...)")
FetchRetrySend(p) ==
    /\ fetch[p].pc = "f_retry_send"
    /\ \/ CapStep(p, [fetch[p] EXCEPT !.pc = "f_sleep"])
       \/ CapStep(p, FetchFail(fetch[p], MSG_EMIT))
    /\ UNCHANGED cache

\* await asyncio.sleep(STEEL_RETRY_DELAYS[attempt - 1])
FetchSleep(p) ==
    /\ fetch[p].pc = "f_sleep"
    /\ CapStep(p, [fetch[p] EXCEPT
                      !.delays = Append(@, RetryDelay(fetch[p].attempt)),
                      !.pc = IF fetch[p].ws THEN "f_contact_send" ELSE "f_call"])
    /\ UNCHANGED cache

\* websocket.send_json("Contacting Steel.dev browser...")
FetchContactSend(p) ==
    /\ fetch[p].pc = "f_contact_send"
    /\ \/ CapStep(p, [fetch[p] EXCEPT !.pc = "f_call"])
       \/ CapStep(p, FetchFail(fetch[p], MSG_EMIT))
    /\ UNCHANGED cache

\* response = steel_client.screenshot(url=url) and the extraction of the url or
\* of the bytes from the response
FetchCall(p) ==
    /\ fetch[p].pc = "f_call"
    /\ LET called == [fetch[p] EXCEPT !.calls = @ + 1]
       IN  \/ CapStep(p, [called EXCEPT
                             !.pc = IF fetch[p].ws THEN "c_send_download" ELSE "c_download"])
           \/ \E img \in Images : CapStep(p, [called EXCEPT !.shot = img, !.pc = "c_save"])
           \/ CapStep(p, FetchFail(called, MSG_UNKNOWN_FORMAT))
           \/ \E e \in BackendErrors : CapStep(p, FetchFail(called, e))
    /\ UNCHANGED cache

\* websocket.send_json("Downloading screenshot image...")
CapSendDownload(p) ==
    /\ fetch[p].pc = "c_send_download"
    /\ \/ CapStep(p, [fetch[p] EXCEPT !.pc = "c_download"])
       \/ CapStep(p, CaptureRaise(fetch[p], MSG_EMIT))
    /\ UNCHANGED cache

\* img_response = await client.get(screenshot_url); img_response.raise_for_status()
CapDownload(p) ==
    /\ fetch[p].pc = "c_download"
    /\ \/ \E img \in Images : CapStep(p, [fetch[p] EXCEPT !.shot = img, !.pc = "c_save"])
       \/ \E e \in DownloadErrors : CapStep(p, CaptureRaise(fetch[p], e))
    /\ UNCHANGED cache

\* CapSave with the exception of a failed write reaching the caller
CapSaveRaising(p) ==
    /\ fetch[p].pc = "c_save"
    /\ \E io \in {"ok", "error", "torn"} :
          /\ cache' = save_screenshot_to_cache(cache, fetch[p].key,
                                               b64encode(fetch[p].shot), now, io)
          /\ IF io = "ok"
             THEN CapStep(p, [fetch[p] EXCEPT !.pc = "returned",
                                              !.result = b64encode(fetch[p].shot)])
             ELSE CapStep(p, CaptureRaise(fetch[p], "Cache write error"))

\* screenshot_base64 = b64encode(...); save_screenshot_to_cache(normalized_url,
\* screenshot_base64); return screenshot_base64
CapSave(p) ==
    /\ fetch[p].pc = "c_save"
    /\ \E io \in {"ok", "error", "torn"} :
          cache' = save_screenshot_to_cache(cache, fetch[p].key,
                                            b64encode(fetch[p].shot), now, io)
    /\ CapStep(p, [fetch[p] EXCEPT !.pc = "returned", !.result = b64encode(fetch[p].shot)])

capture_screenshot(p) ==
    \/ CapGet(p)
    \/ CapSendCached(p)
    \/ CapClient(p)
    \/ FetchRetrySend(p)
    \/ FetchSleep(p)
    \/ FetchContactSend(p)
    \/ FetchCall(p)
    \/ CapSendDownload(p)
    \/ CapDownload(p)
    \/ CapSave(p)

\* steel_client = get_steel_client(); await fetch_screenshot_with_retry(...)
\* without a websocket, from the call to its return or its exception: the
\* fetch returns at the n-th call of the backend after n - 1 retried failures,
\* or raises at the n-th call (the last one, unless the error is not retried);
\* the errors and delays of the attempts before are not recorded
CapFetch(p) ==
    /\ fetch[p].pc = "c_client"
    /\ ~fetch[p].ws
    /\ \/ CapStep(p, CaptureRaise(fetch[p], MSG_NO_STEEL_KEY))
       \/ \E n \in 1..STEEL_MAX_RETRIES :
             LET called == [fetch[p] EXCEPT !.calls = n, !.attempt = n - 1]
             IN  \/ CapStep(p, [called EXCEPT !.pc = "c_download"])
                 \/ \E img \in Images :
                       CapStep(p, [called EXCEPT !.shot = img, !.pc = "c_save"])
                 \/ \E e \in BackendErrors \cup {MSG_UNKNOWN_FORMAT} :
                       /\ is_retryable(e) => n = STEEL_MAX_RETRIES
                       /\ CapStep(p, CaptureRaise(called, fetch_error_message(e)))
    /\ UNCHANGED cache

\* capture_screenshot(url) as _capture_and_emit_screenshot calls it, without
\* a websocket, the fetch taken as one step
scan_capture(p) ==
    \/ CapGet(p)
    \/ CapFetch(p)
    \/ CapDownload(p)
    \/ CapSave(p)

\* time passes
Tick ==
    /\ \E t \in Instants : t > now /\ now' = t
    /\ UNCHANGED <<call, websites, pipeVars, accVars, hubVars, fetch, cache>>

----------------------------------------------------------------------------
(* Entry points *)

NextScanId == Cardinality(Created) + 1

CanCreate == Cardinality(Created) < MaxScans

\* the rows, the background work and the room of a scan that was just created
Insert(f, s, v) == [x \in DOMAIN f \cup {s} |-> IF x = s THEN v ELSE f[x]]

\* the room of a new scan and the (empty) record of what each connection was
\* sent of it
NewRoom(s, members) ==
    /\ rooms' = Insert(rooms, s, members)
    /\ inbox' = [c \in DOMAIN inbox |-> Insert(inbox[c], s, <<>>)]

NewRun(kind, mode, pc, conn) ==
    [kind |-> kind, mode |-> mode, pc |-> pc, conn |-> conn,
     exc |-> NULL, cause |-> NULL, raisedAt |-> NULL,
     search |-> [e \in Engines |-> "idle"], seo |-> NONE, upload |-> "none"]

\* the answer to the most recent entry-point request: for an identity
\* resolution the session id the caller presented and the identity answered,
\* for a claim its arguments and its count
Request(op, token) ==
    [op |-> op,
     bad_token |-> (token # NULL /\ verify_clerk_token(token) = NULL),
     presented |-> NULL,
     status |-> "ok", user_id |-> NULL, session_id |-> NULL, count |-> NONE,
     url |-> NULL,
     scan_id |-> NONE, limit |-> NONE, offset |-> NONE, filter |-> NULL,
     data |-> <<>>]

\* the answer to a submission whose url validate_url refuses: an error, and no
\* record is read or written
InvalidUrl(op, token, url) ==
    /\ lastOp' = [Request(op, token) EXCEPT !.status = "invalid_url", !.url = url]
    /\ UNCHANGED <<call, websites, scans, run, events, sioSess, wsConn, minted,
                   hubVars, capVars>>

\* Socket.io 'auth'
handle_auth(c, token, provided_session_id) ==
    LET user_id == IF token # NULL THEN verify_clerk_token(token) ELSE NULL
    IN  IF user_id # NULL
        THEN LET claim == IF provided_session_id # NULL
                          THEN claim_user_scans(scans, provided_session_id, user_id)
                          ELSE [table |-> scans, count |-> 0]
             IN  /\ sioSess' = [sioSess EXCEPT ![c] =
                       [authenticated |-> TRUE, user_id |-> user_id,
                        session_id |-> provided_session_id]]
                 /\ scans' = claim.table
                 /\ lastOp' = [Request("sio_auth", token) EXCEPT
                                  !.presented = provided_session_id,
                                  !.user_id = user_id,
                                  !.session_id = provided_session_id,
                                  !.count = IF provided_session_id # NULL
                                            THEN Some(claim.count) ELSE NONE]
                 /\ UNCHANGED <<call, websites, run, events, wsConn, minted, hubVars, capVars>>
        ELSE /\ CanMint(provided_session_id)
             /\ sioSess' = [sioSess EXCEPT ![c] =
                   [@ EXCEPT !.authenticated = FALSE,
                             !.session_id = SessionOrNew(provided_session_id)]]
             /\ Mint(provided_session_id)
             /\ lastOp' = [Request("sio_auth", token) EXCEPT
                              !.presented = provided_session_id,
                              !.session_id = SessionOrNew(provided_session_id)]
             /\ UNCHANGED <<call, websites, scans, run, events, wsConn, hubVars, capVars>>

\* Socket.io 'analyze'
handle_analyze(c, url, mode) ==
    IF ~validate_url(url)
    THEN InvalidUrl("sio_analyze", NULL, url)
    ELSE /\ CanCreate
         /\ LET s == NextScanId
                user_id == sioSess[c].user_id
                session_id == sioSess[c].session_id
            IN  /\ websites' = create_or_get_website(websites, url, urlparse(url).netloc)
                /\ scans' = Insert(scans, s, create_scan(user_id, session_id))
                /\ run' = Insert(run, s, NewRun("sp", mode, "set_processing", c))
                /\ events' = Insert(events, s, <<>>)
                /\ NewRoom(s, {c})
                /\ lastOp' = [Request("sio_analyze", NULL) EXCEPT
                                 !.user_id = user_id, !.session_id = session_id,
                                 !.url = url]
         /\ UNCHANGED <<call, sioSess, wsConn, minted, joins, capVars>>

\* the answer to a 'join' or 'leave' of connection c: 'joined', 'left', or the
\* message of the error event
RoomAnswer(op, c, scan_id, status) ==
    [Request(op, NULL) EXCEPT
        !.scan_id = scan_id, !.data = <<c>>, !.status = status,
        !.user_id = sioSess[c].user_id, !.session_id = sioSess[c].session_id]

MSG_SCAN_ID_REQUIRED == "scan_id is required"
MSG_ACCESS_DENIED == "Access denied to this scan"

\* 'join' that also sends the connection the events emitted so far
handle_join_replay(c, scan_id) ==
    LET s == scan_id[1]
        has_access == can_access_scan(scans, s, sioSess[c].user_id, sioSess[c].session_id)
    IN  /\ scan_id # NONE
        /\ joins' = joins + 1
        /\ rooms' = IF has_access THEN [rooms EXCEPT ![s] = @ \cup {c}] ELSE rooms
        /\ inbox' = IF has_access
                     THEN [inbox EXCEPT ![c][s] = [i \in 1..Len(events[s]) |-> i]]
                     ELSE inbox
        /\ lastOp' = RoomAnswer("sio_join", c, scan_id,
                                IF has_access THEN "joined" ELSE MSG_ACCESS_DENIED)
        /\ UNCHANGED <<call, websites, pipeVars, sioSess, wsConn, minted, capVars>>

\* 'join' granting access to every scan that exists
handle_join_any(c, scan_id) ==
    LET s == scan_id[1]
        has_access == scan_id # NONE /\ s \in DOMAIN scans
    IN  /\ joins' = joins + 1
        /\ rooms' = IF has_access THEN [rooms EXCEPT ![s] = @ \cup {c}] ELSE rooms
        /\ lastOp' = RoomAnswer("sio_join", c, scan_id,
                                IF has_access THEN "joined" ELSE MSG_ACCESS_DENIED)
        /\ UNCHANGED <<call, websites, pipeVars, sioSess, wsConn, minted, inbox, capVars>>

\* Socket.io 'join' with data {'scan_id': s} (scan_id = <<s>>) or without a
\* scan_id (scan_id = <<>>): without one the connection is sent an error;
\* otherwise it enters room scan_<s> when can_access_scan grants the identity
\* of its session access, and is sent 'joined', and is sent an error when not
handle_join(c, scan_id) ==
    IF scan_id = NONE
    THEN /\ joins' = joins + 1
         /\ lastOp' = RoomAnswer("sio_join", c, NONE, MSG_SCAN_ID_REQUIRED)
         /\ UNCHANGED <<call, websites, pipeVars, sioSess, wsConn, minted, rooms,
                        inbox, capVars>>
    ELSE LET s == scan_id[1]
             has_access ==
                 can_access_scan(scans, s, sioSess[c].user_id, sioSess[c].session_id)
         IN  /\ joins' = joins + 1
             /\ rooms' = IF has_access THEN [rooms EXCEPT ![s] = @ \cup {c}] ELSE rooms
             /\ lastOp' = RoomAnswer("sio_join", c, scan_id,
                                     IF has_access THEN "joined" ELSE MSG_ACCESS_DENIED)
             /\ UNCHANGED <<call, websites, pipeVars, sioSess, wsConn, minted, inbox,
                            capVars>>

\* Socket.io 'leave' with data {'scan_id': s} or without a scan_id: without
\* one the connection is sent an error; otherwise it leaves room scan_<s> and
\* is sent 'left'
handle_leave(c, scan_id) ==
    /\ joins' = joins + 1
    /\ rooms' = IF scan_id # NONE /\ scan_id[1] \in DOMAIN rooms
              THEN [rooms EXCEPT ![scan_id[1]] = @ \ {c}] ELSE rooms
    /\ lastOp' = RoomAnswer("sio_leave", c, scan_id,
                            IF scan_id = NONE THEN MSG_SCAN_ID_REQUIRED ELSE "left")
    /\ UNCHANGED <<call, websites, pipeVars, sioSess, wsConn, minted, inbox, capVars>>

\* POST /api/scans
create_scan_endpoint(token, x_session_id, url) ==
    LET user_id == get_user_id_from_auth_header(token)
        session_id == IF user_id # NULL THEN NULL ELSE SessionOrNew(x_session_id)
        s == NextScanId
    IN  IF ~validate_url(url)
        THEN InvalidUrl("rest_create", token, url)
        ELSE /\ CanCreate
             /\ user_id = NULL => CanMint(x_session_id)
             /\ websites' = create_or_get_website(websites, url, urlparse(url).netloc)
             /\ scans' = Insert(scans, s, create_scan(user_id, session_id))
             /\ run' = Insert(run, s, NewRun("sp", "structured", "set_processing", NULL))
             /\ events' = Insert(events, s, <<>>)
             /\ NewRoom(s, {})
             /\ minted' = IF user_id = NULL /\ x_session_id = NULL
                           THEN minted + 1 ELSE minted
             /\ lastOp' = [Request("rest_create", token) EXCEPT
                              !.presented = x_session_id,
                              !.user_id = user_id, !.session_id = session_id,
                              !.url = url]
             /\ UNCHANGED <<call, sioSess, wsConn, joins, capVars>>

\* process_scan called without a scan id: it validates the url and creates the
\* website and scan records itself before processing the scan
process_scan_without_id(url, mode) ==
    IF ~validate_url(url)
    THEN InvalidUrl("process_scan", NULL, url)
    ELSE /\ CanCreate
         /\ LET s == NextScanId
            IN  /\ websites' = create_or_get_website(websites, url, urlparse(url).netloc)
                /\ scans' = Insert(scans, s, create_scan(NULL, NULL))
                /\ run' = Insert(run, s, NewRun("sp", mode, "set_processing", NULL))
                /\ events' = Insert(events, s, <<>>)
                /\ NewRoom(s, {})
                /\ lastOp' = [Request("process_scan", NULL) EXCEPT !.url = url]
         /\ UNCHANGED <<call, sioSess, wsConn, minted, joins, capVars>>

\* GET /api/scans/{scan_id}
get_scan_endpoint(token, session_id, scan_id) ==
    LET user_id == get_user_id_from_auth_header(token)
        request == [Request("rest_get", token) EXCEPT
                       !.presented = session_id, !.user_id = user_id,
                       !.scan_id = Some(scan_id)]
    IN  /\ lastOp' =
               IF scan_id \notin DOMAIN scans
               THEN [request EXCEPT !.status = "404"]
               ELSE IF get_scan_by_id(scans, scan_id, user_id, session_id) = NONE
                    THEN IF user_id = NULL /\ session_id = NULL
                         THEN [request EXCEPT !.status = "401"]
                         ELSE [request EXCEPT !.status = "403"]
                    ELSE [request EXCEPT !.status = "200", !.data = <<scan_id>>]
        /\ UNCHANGED <<call, websites, scans, run, events, sioSess, wsConn, minted,
                       hubVars, capVars>>

\* GET /api/scans
list_scans_endpoint(token, limit, offset, status) ==
    LET user_id == get_user_id_from_auth_header(token)
        request == [Request("rest_list", token) EXCEPT
                       !.user_id = user_id, !.limit = Some(limit),
                       !.offset = Some(offset), !.filter = status]
        capped == IF limit > 100 THEN 100 ELSE limit
        listed == list_user_scans(scans, user_id, capped, offset, status)
    IN  /\ lastOp' =
               IF user_id = NULL
               THEN [request EXCEPT !.status = "401"]
               ELSE [request EXCEPT !.status = "200", !.data = listed.scans,
                                    !.count = Some(listed.total)]
        /\ UNCHANGED <<call, websites, scans, run, events, sioSess, wsConn, minted,
                       hubVars, capVars>>

\* POST /api/scans/claim
claim_scans_endpoint(token, session_id) ==
    LET user_id == get_user_id_from_auth_header(token)
        claim == claim_user_scans(scans, session_id, user_id)
    IN  IF user_id = NULL
        THEN /\ lastOp' = [Request("rest_claim", token) EXCEPT !.status = "401"]
             /\ UNCHANGED <<call, websites, scans, run, events, sioSess, wsConn, minted, hubVars, capVars>>
        ELSE /\ scans' = claim.table
             /\ lastOp' = [Request("rest_claim", token) EXCEPT
                              !.user_id = user_id,
                              !.session_id = session_id,
                              !.count = Some(claim.count)]
             /\ UNCHANGED <<call, websites, run, events, sioSess, wsConn, minted, hubVars, capVars>>

----------------------------------------------------------------------------
(* Legacy /ws endpoint (routes/websocket.py) *)

NoWsSession ==
    [state |-> "await_auth", authenticated |-> FALSE,
     user_id |-> NULL, session_id |-> NULL, current_scan_id |-> NONE]

\* PHASE 1 of websocket_endpoint: the first message, of type 'auth'
WsAuth(c, token, provided_session_id) ==
    /\ wsConn[c].state = "await_auth"
    /\ LET user_id == IF token # NULL THEN verify_clerk_token(token) ELSE NULL
       IN  IF token # NULL /\ user_id = NULL
           THEN \* invalid token: auth_response with an error, then close
                /\ wsConn' = [wsConn EXCEPT ![c].state = "closed"]
                /\ lastOp' = [Request("ws_auth", token) EXCEPT
                                 !.presented = provided_session_id,
                                 !.status = "closed"]
                /\ UNCHANGED <<call, websites, scans, run, events, sioSess, minted, hubVars, capVars>>
           ELSE /\ CanMint(provided_session_id)
                /\ LET session_id == SessionOrNew(provided_session_id)
                       claim == IF user_id # NULL /\ provided_session_id # NULL
                                THEN claim_user_scans(scans, provided_session_id, user_id)
                                ELSE [table |-> scans, count |-> 0]
                   IN  /\ wsConn' = [wsConn EXCEPT ![c] =
                             [@ EXCEPT !.state = "open",
                                       !.authenticated = (user_id # NULL),
                                       !.user_id = user_id,
                                       !.session_id = session_id]]
                       /\ scans' = claim.table
                       /\ lastOp' = [Request("ws_auth", token) EXCEPT
                                        !.presented = provided_session_id,
                                        !.user_id = user_id,
                                        !.session_id = session_id,
                                        !.count = IF user_id # NULL /\ provided_session_id # NULL
                                                  THEN Some(claim.count) ELSE NONE]
                /\ Mint(provided_session_id)
                /\ UNCHANGED <<call, websites, run, events, sioSess, hubVars, capVars>>

\* PHASE 2: an 'analyze' message; a url that validate_url refuses is answered
\* with an error and the loop goes on, otherwise the website and scan records
\* are created and the analysis runs inside the receive loop of the connection
WsAnalyze(c, url, mode) ==
    /\ wsConn[c].state = "open"
    /\ IF ~validate_url(url)
       THEN InvalidUrl("ws_analyze", NULL, url)
       ELSE /\ CanCreate
            /\ LET s == NextScanId
               IN  /\ websites' = create_or_get_website(websites, url, urlparse(url).netloc)
                   /\ scans' = Insert(scans, s, create_scan(wsConn[c].user_id,
                                                             wsConn[c].session_id))
                   /\ run' = Insert(run, s, NewRun("ws", mode, "ws_set_processing", c))
                   /\ events' = Insert(events, s, <<>>)
                   /\ NewRoom(s, {})
                   /\ wsConn' = [wsConn EXCEPT ![c].state = "busy",
                                               ![c].current_scan_id = Some(s)]
                   /\ lastOp' = [Request("ws_analyze", NULL) EXCEPT
                                    !.user_id = wsConn[c].user_id,
                                    !.session_id = wsConn[c].session_id,
                                    !.url = url]
            /\ UNCHANGED <<call, sioSess, minted, joins, capVars>>

\* the websocket.send_json calls of the analysis, in source order
WsSendPcs ==
    {"ws_send_dberror", "ws_send_status", "ws_send_shot", "ws_send_caperror",
     "ws_send_start", "ws_send_structured", "ws_send_status2", "ws_send_status3",
     "ws_send_seo", "ws_send_end", "ws_send_error"}

\* the statement that follows each position when it does not raise; "continue"
\* and the end of the loop body go back to receive_text
WsNextPc(pc, mode) ==
    CASE pc = "ws_set_processing" -> "ws_send_status"
      [] pc = "ws_send_dberror" -> "done"
      [] pc = "ws_send_status" -> "ws_capture"
      [] pc = "ws_capture" -> "ws_send_shot"
      [] pc = "ws_send_shot" -> "ws_upload"
      [] pc = "ws_upload" -> "ws_send_start"
      [] pc = "ws_cap_failed" -> "ws_send_caperror"
      [] pc = "ws_send_caperror" -> "done"
      [] pc = "ws_send_start" -> IF mode = "structured" THEN "ws_analyze" ELSE "ws_stream"
      [] pc = "ws_analyze" -> "ws_send_structured"
      [] pc = "ws_send_structured" -> "ws_send_status2"
      [] pc = "ws_send_status2" -> "ws_search"
      [] pc = "ws_search" -> "ws_send_status3"
      [] pc = "ws_send_status3" -> "ws_seo"
      [] pc = "ws_seo" -> "ws_send_seo"
      [] pc = "ws_send_seo" -> "ws_set_completed"
      [] pc = "ws_stream" -> "ws_set_completed"
      [] pc = "ws_set_completed" -> "ws_send_end"
      [] pc = "ws_send_end" -> "done"
      [] pc = "ws_handler" -> "ws_send_error"
      [] pc = "ws_send_error" -> "done"
      [] OTHER -> "done"

\* the except clause that catches an exception raised at pc: the one of the
\* database block, the one of the capture block, the one of the analysis block,
\* or none of them (the exception ends websocket_endpoint)
WsCatchPc(pc) ==
    CASE pc = "ws_set_processing" -> "ws_send_dberror"
      [] pc \in {"ws_capture", "ws_send_shot"} -> "ws_cap_failed"
      [] pc \in {"ws_analyze", "ws_send_structured", "ws_send_status2", "ws_search",
                 "ws_send_status3", "ws_seo", "ws_send_seo", "ws_stream",
                 "ws_set_completed", "ws_send_end"} -> "ws_handler"
      [] OTHER -> "raised"

WsRaise(r, msg) ==
    [r EXCEPT
        !.pc = WsCatchPc(r.pc),
        !.exc = msg,
        !.cause = IF @ = NULL THEN msg ELSE @,
        !.raisedAt = IF @ = NULL THEN r.pc ELSE @]

WsAdvance(r) == [r EXCEPT !.pc = WsNextPc(r.pc, r.mode)]

\* the connection after its analysis moved to position pc: back in the receive
\* loop, ended by an exception, or still inside the analysis
WsConnAfter(conn, pc) ==
    [conn EXCEPT !.state = CASE pc = "done" -> "open"
                             [] pc = "raised" -> "dead"
                             [] OTHER -> @]

WsRunning(s) == s \in Created /\ run[s].kind = "ws"

WsStep(s, r) ==
    /\ run' = [run EXCEPT ![s] = r]
    /\ wsConn' = [wsConn EXCEPT ![run[s].conn] = WsConnAfter(@, r.pc)]

\* update_scan_status(scan['id'], 'processing')
WsSetProcessing(s) ==
    /\ WsRunning(s) /\ run[s].pc = "ws_set_processing"
    /\ \/ /\ scans' = [scans EXCEPT ![s] = update_scan_status(@, "processing", NULL, NULL, NONE)]
          /\ WsStep(s, WsAdvance(run[s]))
       \/ /\ WsStep(s, WsRaise(run[s], MSG_STORE))
          /\ UNCHANGED scans
    /\ UNCHANGED <<call, websites, events, sioSess, minted, lastOp, hubVars, capVars>>

\* websocket.send_json(...)
WsSend(s) ==
    /\ WsRunning(s) /\ run[s].pc \in WsSendPcs
    /\ \/ WsStep(s, WsAdvance(run[s]))
       \/ WsStep(s, WsRaise(run[s], MSG_EMIT))
    /\ UNCHANGED <<call, websites, scans, events, sioSess, minted, lastOp, hubVars, capVars>>

\* capture_screenshot(url, websocket)
WsCapture(s) ==
    /\ WsRunning(s) /\ run[s].pc = "ws_capture"
    /\ \/ WsStep(s, WsAdvance(run[s]))
       \/ \E msg \in CaptureErrors : WsStep(s, WsRaise(run[s], msg))
    /\ UNCHANGED <<call, websites, scans, events, sioSess, minted, lastOp, hubVars, capVars>>

\* the S3 upload: its errors are printed and the analysis goes on
WsUpload(s) ==
    /\ WsRunning(s) /\ run[s].pc = "ws_upload"
    /\ WsStep(s, WsAdvance(run[s]))
    /\ UNCHANGED <<call, websites, scans, events, sioSess, minted, lastOp, hubVars, capVars>>

\* except of the capture block: update_scan_status(current_scan_id, 'failed',
\* error_message=f"Screenshot capture failed: {str(e)}")
WsCaptureFailed(s) ==
    /\ WsRunning(s) /\ run[s].pc = "ws_cap_failed"
    /\ \/ /\ scans' = [scans EXCEPT ![s] =
                 update_scan_status(@, "failed", NULL,
                                    "Screenshot capture failed: " \o run[s].exc, NONE)]
          /\ WsStep(s, WsAdvance(run[s]))
       \/ /\ WsStep(s, WsRaise(run[s], MSG_STORE))
          /\ UNCHANGED scans
    /\ UNCHANGED <<call, websites, events, sioSess, minted, lastOp, hubVars, capVars>>

\* analyze_website_node, the gathered searches, analyze_seo_node, astream_events
\* (with the send of each token)
WsBackendCall(s) ==
    /\ WsRunning(s) /\ run[s].pc \in {"ws_analyze", "ws_search", "ws_seo", "ws_stream"}
    /\ \/ WsStep(s, WsAdvance(run[s]))
       \/ WsStep(s, WsRaise(run[s], IF run[s].pc = "ws_search" THEN MSG_SEARCH
                                                                ELSE MSG_INFERENCE))
    /\ UNCHANGED <<call, websites, scans, events, sioSess, minted, lastOp, hubVars, capVars>>

\* update_scan_status(current_scan_id, 'completed', scan_data=..., processing_time_ms=...)
WsSetCompleted(s) ==
    /\ WsRunning(s) /\ run[s].pc = "ws_set_completed"
    /\ \/ /\ \E ms \in ElapsedMs :
                scans' = [scans EXCEPT ![s] =
                             update_scan_status(@, "completed", run[s].mode, NULL, Some(ms))]
          /\ WsStep(s, WsAdvance(run[s]))
       \/ /\ WsStep(s, WsRaise(run[s], MSG_STORE))
          /\ UNCHANGED scans
    /\ UNCHANGED <<call, websites, events, sioSess, minted, lastOp, hubVars, capVars>>

\* except of the analysis block: update_scan_status(current_scan_id, 'failed',
\* error_message=f"Analysis failed: {str(e)}"), whose own error is printed
WsHandler(s) ==
    /\ WsRunning(s) /\ run[s].pc = "ws_handler"
    /\ \/ scans' = [scans EXCEPT ![s] =
                       update_scan_status(@, "failed", NULL,
                                          "Analysis failed: " \o run[s].exc, NONE)]
       \/ UNCHANGED scans
    /\ WsStep(s, WsAdvance(run[s]))
    /\ UNCHANGED <<call, websites, events, sioSess, minted, lastOp, hubVars, capVars>>

ws_analysis(s) ==
    \/ WsSetProcessing(s)
    \/ WsSend(s)
    \/ WsCapture(s)
    \/ WsUpload(s)
    \/ WsCaptureFailed(s)
    \/ WsBackendCall(s)
    \/ WsSetCompleted(s)
    \/ WsHandler(s)

----------------------------------------------------------------------------

\* no helper function was called yet
NoCall ==
    [fn |-> "none", url |-> "", results |-> <<>>, value |-> "", rank |-> NONE,
     count |-> 0, skipped |-> {}]

NoSession == [authenticated |-> FALSE, user_id |-> NULL, session_id |-> NULL]

Init ==
    /\ scans = <<>>
    /\ websites = <<>>
    /\ run = <<>>
    /\ events = <<>>
    /\ sioSess = [c \in Conns |-> NoSession]
    /\ wsConn = [c \in WsConns |-> NoWsSession]
    /\ minted = 0
    /\ lastOp = Request("none", NULL)
    /\ rooms = <<>>
    /\ inbox = [c \in Conns |-> <<>>]
    /\ joins = 0
    /\ fetch = [p \in CapIds |-> NoFetch]
    /\ cache = [k \in Keys |-> CacheEntry(NoFile, NONE)]
    /\ now = 0
    /\ call = NoCall

Modes == {"structured", "streaming"}

\* scans whose unit of work has neither returned nor raised
InFlight == {s \in Created : run[s].pc \notin {"done", "raised"}}

CanStart == Cardinality(InFlight) < MaxRunning

\* the ScanProcessor pipeline, started from Socket.io 'analyze'
Next ==
    \/ CanStart /\ CanCreate
          /\ \E c \in SioConns, mode \in Modes : handle_analyze(c, ScanUrl, mode)
    \/ \E s \in ScanIds : process_scan(s)

Spec == Init /\ [][Next]_vars

OptTokens == Tokens \cup {NULL}

\* the session ids a client can present: its own, and the minted ones it was told
OptSessions == ClientSessions \cup {"g" \o ToString(i) : i \in 1..minted} \cup {NULL}

\* the legacy /ws endpoint: authentication, then analyses run one after the other
NextWs ==
    \/ \E c \in WsConns, token \in OptTokens, sid \in OptSessions : WsAuth(c, token, sid)
    \/ CanCreate /\ \E c \in WsConns, mode \in Modes : WsAnalyze(c, ScanUrl, mode)
    \/ \E s \in ScanIds : ws_analysis(s)

SpecWs == Init /\ [][NextWs]_vars

\* identity resolution, scan creation and claims on every entry point; the
\* background work of the scans is not scheduled
NextAccess ==
    \/ \E c \in SioConns, token \in OptTokens, sid \in OptSessions : handle_auth(c, token, sid)
    \/ CanCreate /\ \E c \in SioConns : handle_analyze(c, ScanUrl, "structured")
    \/ CanCreate /\ \E token \in OptTokens, sid \in OptSessions :
                        create_scan_endpoint(token, sid, ScanUrl)
    \/ \E token \in OptTokens, sid \in OptSessions \ {NULL} : claim_scans_endpoint(token, sid)

SpecAccess == Init /\ [][NextAccess]_vars

CanJoin == joins < MaxJoins

\* the connections after each sent 'auth' without a token and with session s1
InitRooms ==
    /\ scans = <<>>
    /\ websites = <<>>
    /\ run = <<>>
    /\ events = <<>>
    /\ sioSess = [c \in Conns |-> [NoSession EXCEPT !.session_id = "s1"]]
    /\ wsConn = [c \in WsConns |-> NoWsSession]
    /\ minted = 0
    /\ lastOp = [Request("sio_auth", NULL) EXCEPT !.presented = "s1", !.session_id = "s1"]
    /\ rooms = <<>>
    /\ inbox = [c \in Conns |-> <<>>]
    /\ joins = 0
    /\ fetch = [p \in CapIds |-> NoFetch]
    /\ cache = [k \in Keys |-> CacheEntry(NoFile, NONE)]
    /\ now = 0
    /\ call = NoCall

\* process_scan for a scan in streaming mode: the steps it can take
process_scan_streaming(s) ==
    \/ SpSetProcessing(s)
    \/ SpEmitProgress(s)
    \/ SpEmitScreenshotLoading(s)
    \/ SpCaptureCall(s)
    \/ SpCapture(s)
    \/ SpEmitScreenshot(s)
    \/ SpUpload(s)
    \/ SpBackendCall(s)
    \/ SpSetCompleted(s)
    \/ SpEmitCompleted(s)
    \/ SpHandler(s)
    \/ SpEmitFailed(s)

\* the rooms: connections that share session s1 submit streaming scans, whose
\* pipelines run side by side, and join and leave rooms while the pipelines emit
NextRooms ==
    \/ ~EventLoopBlocked /\ CanCreate
          /\ \E c \in SioConns : handle_analyze(c, ScanUrl, "streaming")
    \/ ~EventLoopBlocked /\ CanJoin
          /\ \E c \in Conns, s \in ScanIds : handle_join(c, Some(s))
    \/ ~EventLoopBlocked /\ CanJoin
          /\ \E c \in Conns, s \in ScanIds : handle_leave(c, Some(s))
    \/ \E s \in ScanIds : process_scan_streaming(s)

SpecRooms == InitRooms /\ [][NextRooms]_vars

\* the capture service: calls of capture_screenshot, with and without a
\* websocket for its status messages, while time passes
NextCapture ==
    \/ \E p \in CapIds, url \in Urls, ws \in BOOLEAN : capture_start(p, url, ws)
    \/ \E p \in CapIds : capture_screenshot(p)
    \/ Tick

SpecCapture == Init /\ [][NextCapture]_vars

\* what the data of a 'join' or 'leave' holds as scan_id
OptScanIds == {NONE} \cup {Some(s) : s \in ScanIds}

\* the rooms and the identities: connections authenticate, again and as
\* somebody else, submit scans, and join and leave rooms, before and after
\* their first auth; the background work of the scans is not scheduled
NextJoin ==
    \/ \E c \in Conns, token \in {"tok_u1", NULL}, sid \in {"s1", NULL} :
          handle_auth(c, token, sid)
    \/ CanCreate /\ \E c \in SioConns : handle_analyze(c, ScanUrl, "structured")
    \/ CanJoin /\ \E c \in Conns, scan_id \in OptScanIds : handle_join(c, scan_id)
    \/ CanJoin /\ \E c \in Conns, scan_id \in OptScanIds : handle_leave(c, scan_id)

SpecJoin == Init /\ [][NextJoin]_vars

\* the scans whose captures run at the same time
Scanners == {"p1", "p2"}

\* the key of the scanned url has no entry and no capture has begun
InitShared ==
    /\ scans = <<>>
    /\ websites = <<>>
    /\ run = <<>>
    /\ events = <<>>
    /\ sioSess = [c \in Conns |-> NoSession]
    /\ wsConn = [c \in WsConns |-> NoWsSession]
    /\ minted = 0
    /\ lastOp = Request("none", NULL)
    /\ rooms = <<>>
    /\ inbox = [c \in Conns |-> <<>>]
    /\ joins = 0
    /\ fetch = [p \in Scanners |-> NoFetch]
    /\ cache = [k \in {normalize_url(ScanUrl)} |-> CacheEntry(NoFile, NONE)]
    /\ now = 0
    /\ call = NoCall

\* scans of one url capture its screenshot at the same time, over one cache,
\* and once they have all ended a later scan of the url captures it again
NextShared ==
    \/ \E p \in Scanners :
          /\ \/ fetch[p].pc = "idle"
             \/ \A q \in Scanners : fetch[q].pc \in {"returned", "raised"}
          /\ capture_start(p, ScanUrl, FALSE)
    \/ \E p \in Scanners : scan_capture(p)

SpecShared == InitShared /\ [][NextShared]_vars

\* startup_event(): the application starts, with no call in progress, and
\* sweeps the cache directory
startup_event ==
    /\ \E unreadable \in SUBSET {k \in DOMAIN cache : cache[k].file.kind = "json"} :
          LET swept == cleanup_expired_cache(cache, now, unreadable)
          IN  /\ cache' = swept.cache
              /\ call' = [NoCall EXCEPT !.fn = "cleanup_expired_cache",
                                        !.count = swept.count,
                                        !.skipped = unreadable]
    /\ fetch' = [p \in DOMAIN fetch |-> NoFetch]
    /\ UNCHANGED <<websites, pipeVars, accVars, hubVars, now>>

\* the keys of the files of the cache directory when the application starts
SweepKeys == {"http://a.com/P", "http://b.com/Q"}

\* the files an earlier run of the application left: none, a file json.load
\* rejects, or an entry saved at instant 0 or 1
StoredFiles(k) ==
    {NoFile, CORRUPT}
        \cup {CacheFile(k, t, b64encode(img)) : t \in {0, 1}, img \in Images}

\* the application starts over a cache directory left by earlier runs
InitSweep ==
    /\ scans = <<>>
    /\ websites = <<>>
    /\ run = <<>>
    /\ events = <<>>
    /\ sioSess = [c \in Conns |-> NoSession]
    /\ wsConn = [c \in WsConns |-> NoWsSession]
    /\ minted = 0
    /\ lastOp = Request("none", NULL)
    /\ rooms = <<>>
    /\ inbox = [c \in Conns |-> <<>>]
    /\ joins = 0
    /\ fetch = [p \in CapIds |-> NoFetch]
    /\ \E files \in [SweepKeys -> UNION {StoredFiles(k) : k \in SweepKeys}] :
          /\ \A k \in SweepKeys : files[k] \in StoredFiles(k)
          /\ cache = [k \in SweepKeys |-> CacheEntry(files[k], NONE)]
    /\ now \in {1, CACHE_TTL_SECONDS, CACHE_TTL_SECONDS + 1}
    /\ call = NoCall

\* the sweep of the cache directory at startup, while time passes
NextSweep ==
    \/ startup_event
    \/ Tick

SpecSweep == InitSweep /\ [][NextSweep]_vars

\* the urls given to the helper functions: schemes, netlocs and tails in both
\* cases, with userinfo, port, 'www.', empty query and empty fragment
UrlSchemes == {"HTTP", "http", "Https"}
UrlNetlocs == {"A.com", "a.com", "WWW.Example.com", "example.com",
               "User:PaSS@Host.com", "a.com:80"}
UrlTails == {"", "/P", "/p", "?", "/P?Q=1#F", "/#"}
UrlInputs ==
    {s \o "://" \o n \o tl : s \in UrlSchemes, n \in UrlNetlocs, tl \in UrlTails}
        \cup {"http:////Foo/x", "Example.com/Path"}

\* a call normalize_url(url)
normalize_url_call(url) ==
    /\ call = NoCall
    /\ call' = [NoCall EXCEPT !.fn = "normalize_url", !.url = url,
                              !.value = normalize_url(url)]
    /\ UNCHANGED <<websites, pipeVars, accVars, hubVars, capVars>>

\* the target urls of a ranking and the 'link' of a search result ("": none)
Targets == {"http://Example.com/path", "http://a.com:80/P", "https://A.com"}
Links == {"", "https://www.example.com/other", "https://a.com/", "http://b.org/a.com"}

\* the organic results a search returns, each given by its link
ResultLists == UNION {[1..n -> Links] : n \in 0..MaxResults}

\* a call find_url_ranking(url, organic_results)
find_url_ranking_call(url, organic_results) ==
    /\ call = NoCall
    /\ call' = [NoCall EXCEPT !.fn = "find_url_ranking", !.url = url,
                              !.results = organic_results,
                              !.rank = find_url_ranking(url, organic_results)]
    /\ UNCHANGED <<websites, pipeVars, accVars, hubVars, capVars>>

\* the helper functions of utils.py and services/search.py applied to urls
NextUrl ==
    \/ \E url \in UrlInputs : normalize_url_call(url)
    \/ \E url \in Targets, organic_results \in ResultLists :
           find_url_ranking_call(url, organic_results)

SpecUrl == Init /\ [][NextUrl]_vars

\* the urls submitted for a scan: well formed ones, and ones with no http or
\* https scheme or with no host
SubmitUrls ==
    {"http://Example.com/path", "https://a.com", "http://:80/P", "http:///x",
     "ftp://a.com", "Example.com/Path", ""}

\* the four ways a scan is submitted, with any url; the background work of the
\* scans is not scheduled
NextSubmit ==
    \/ \E c \in SioConns, url \in SubmitUrls : handle_analyze(c, url, "structured")
    \/ \E token \in {NULL, "tok_u1"}, url \in SubmitUrls :
           create_scan_endpoint(token, NULL, url)
    \/ \E c \in WsConns : WsAuth(c, NULL, "s1")
    \/ \E c \in WsConns, url \in SubmitUrls : WsAnalyze(c, url, "structured")
    \/ \E url \in SubmitUrls : process_scan_without_id(url, "structured")

SpecSubmit == Init /\ [][NextSubmit]_vars

\* the rows a scan can have in the store: of a user, of a session, of both or
\* of neither, pending or processing
StoredRows ==
    LET created == {create_scan(u, sid) : u \in Users \cup {NULL},
                                         sid \in ClientSessions \cup {NULL}}
    IN  created \cup {update_scan_status(row, "processing", NULL, NULL, NONE) : row \in created}

\* the record store as a server that has just started finds it
InitRead ==
    /\ scans \in UNION {[1..n -> StoredRows] : n \in 0..MaxScans}
    /\ websites = IF scans = <<>> THEN <<>>
                  ELSE <<[url |-> ScanUrl, domain |-> urlparse(ScanUrl).netloc]>>
    /\ run = <<>>
    /\ events = <<>>
    /\ sioSess = [c \in Conns |-> NoSession]
    /\ wsConn = [c \in WsConns |-> NoWsSession]
    /\ minted = 0
    /\ lastOp = Request("none", NULL)
    /\ rooms = <<>>
    /\ inbox = [c \in Conns |-> <<>>]
    /\ joins = 0
    /\ fetch = [p \in CapIds |-> NoFetch]
    /\ cache = [k \in Keys |-> CacheEntry(NoFile, NONE)]
    /\ now = 0
    /\ call = NoCall

\* the limits, offsets and status filters of a listing
Limits == {1, 2, 101}
Offsets == {0, 1}
StatusFilters == {NULL, "pending", "processing"}

\* one read request on the REST API: GET /api/scans/{scan_id} or GET /api/scans
NextRead ==
    \/ /\ lastOp.op = "none"
       /\ \E token \in OptTokens, sid \in ClientSessions \cup {NULL},
             scan_id \in 1..(MaxScans + 1) : get_scan_endpoint(token, sid, scan_id)
    \/ /\ lastOp.op = "none"
       /\ \E token \in OptTokens, limit \in Limits, offset \in Offsets,
             status \in StatusFilters : list_scans_endpoint(token, limit, offset, status)

SpecRead == InitRead /\ [][NextRead]_vars

----------------------------------------------------------------------------
(* Properties *)

Ended(s) == run[s].pc \in {"done", "raised"}

\* the events of kind k emitted so far to the room of scan s
EventsOfKind(s, kinds) == {i \in 1..Len(events[s]) : events[s][i].kind \in kinds}

TerminalKinds == {"scan:completed", "scan:failed"}
TerminalStatus == {"completed", "failed"}

\* C1: every run of process_scan that has ended, whatever calls failed on its
\* way, has emitted exactly one terminal event (scan:completed or scan:failed)
\* to the room of its scan.
C1_ExactlyOneTerminalEvent ==
    \A s \in Created :
        (run[s].kind = "sp" /\ Ended(s))
            => Cardinality(EventsOfKind(s, TerminalKinds)) = 1

\* C2: terminal states are absorbing: a step never changes the persisted status
\* of a scan that is completed or failed.
C2_TerminalAbsorbing ==
    [][\A s \in Created :
          scans[s].status \in TerminalStatus => scans'[s].status = scans[s].status]_vars

\* C3 as stated: a scan is created pending, its status becomes completed or
\* failed only from processing, and it never becomes pending or processing
\* again once processing has been left.
C3_OnlyThroughProcessing ==
    [][\A s \in DOMAIN scans' :
          IF s \notin Created
          THEN scans'[s].status = "pending"
          ELSE scans'[s].status # scans[s].status =>
                  /\ scans'[s].status # "pending"
                  /\ scans'[s].status = "processing" => scans[s].status = "pending"
                  /\ scans[s].status = "pending" => scans'[s].status = "processing"]_vars

\* C3 amended: a scan is created pending; completed is written only to a scan
\* persisted as processing; failed is written to a scan that is still pending
\* only when the run's own write of processing raised; pending is never
\* written again and processing is written only to a pending scan.
C3_ProcessingUnlessItsWriteRaised ==
    [][\A s \in DOMAIN scans' :
          IF s \notin Created
          THEN scans'[s].status = "pending"
          ELSE scans'[s].status # scans[s].status =>
                  /\ scans'[s].status # "pending"
                  /\ scans'[s].status = "processing" => scans[s].status = "pending"
                  /\ scans'[s].status = "completed" => scans[s].status = "processing"
                  /\ (scans[s].status = "pending" /\ scans'[s].status = "failed")
                        => run[s].raisedAt = "set_processing"]_vars

\* a scan that went from pending to failed because the write of processing raised
C3_Witness ==
    \E s \in Created :
        /\ scans[s].status = "failed"
        /\ run[s].raisedAt = "set_processing"
        /\ run[s].pc = "done"

\* C4: within one scan the percent values of the scan:progress events, in
\* emission order, never decrease.
C4_ProgressNonDecreasing ==
    \A s \in Created :
        \A i, j \in EventsOfKind(s, {"scan:progress"}) :
            i < j => events[s][i].percent <= events[s][j].percent

\* a structured scan that emitted all its progress events, up to 100
C4_Witness ==
    \E s \in Created :
        /\ run[s].mode = "structured"
        /\ Cardinality(EventsOfKind(s, {"scan:progress"})) = 10
        /\ events[s][Len(events[s]) - 1] = ProgressEvent(100)
        /\ run[s].pc = "done"

\* C5: a scan whose work was started is not left in processing: when its unit
\* of work has ended (returned or raised), its persisted status is not processing.
C5_NeverLeftProcessing ==
    \A s \in Created : Ended(s) => scans[s].status # "processing"

\* the steps of the pipeline whose exception the scan must report
PipelineStepPcs ==
    {"set_processing", "cap_capture", "wf_analyze", "wf_gather", "wf_seo",
     "stream", "set_completed"}

\* C6: when a pipeline step raised and process_scan returned, the scan is
\* persisted as failed with the message of the exception that step raised, and
\* the scan:failed event, the last event of the scan, carries that message.
C6_FailedWithTriggeringMessage ==
    \A s \in Created :
        (run[s].kind = "sp" /\ run[s].pc = "done" /\ run[s].raisedAt \in PipelineStepPcs)
            => /\ scans[s].status = "failed"
               /\ scans[s].error_message = run[s].cause
               /\ Len(events[s]) > 0
               /\ events[s][Len(events[s])] = OtherEvent("scan:failed", run[s].cause)

Callers ==
    (Users \cup {NULL})
        \X (ClientSessions \cup {"g" \o ToString(i) : i \in 1..MaxMinted} \cup {NULL})

\* C8: can_access_scan grants access exactly when the caller's user id is the
\* scan's user id, or the scan has no user and the caller's session id is the
\* scan's session id; an unknown scan id is refused.
C8_AccessIffOwner ==
    \A id \in 1..(MaxScans + 1), caller \in Callers :
        can_access_scan(scans, id, caller[1], caller[2])
            <=> /\ id \in Created
                /\ \/ caller[1] # NULL /\ scans[id].user_id = caller[1]
                   \/ /\ scans[id].user_id = NULL
                      /\ caller[2] # NULL
                      /\ scans[id].session_id = caller[2]

\* the scans of session S that have no user
Unclaimed(table, S) == {s \in DOMAIN table : table[s].session_id = S /\ table[s].user_id = NULL}

\* C9: a claim of session S for user U gives every scan of S that has no user to
\* U, leaves every other scan as it was, and returns the number of scans it
\* gave; the same claim repeated right after returns 0 and changes nothing.
C9_ClaimTransfersOnce ==
    [][lastOp'.count # NONE =>
          LET S == lastOp'.session_id
              U == lastOp'.user_id
          IN  /\ lastOp'.count = Some(Cardinality(Unclaimed(scans, S)))
              /\ DOMAIN scans' = DOMAIN scans
              /\ \A s \in DOMAIN scans :
                    scans'[s] = IF s \in Unclaimed(scans, S)
                                THEN [scans[s] EXCEPT !.user_id = U]
                                ELSE scans[s]
              /\ claim_user_scans(scans', S, U) = [table |-> scans', count |-> 0]]_vars

\* a claim that has just transferred two scans
C9_Witness ==
    /\ lastOp.op = "rest_claim"
    /\ lastOp.count = Some(2)
    /\ \A s \in Created : scans[s].user_id = lastOp.user_id

\* C10: after an identity resolution whose bearer token did not verify, the
\* caller is anonymous with a session id and goes on: the request is answered
\* normally and the connection stays open.
C10_BadTokenDegradesToAnonymous ==
    (lastOp.bad_token /\ lastOp.op \in {"sio_auth", "ws_auth", "rest_create"})
        => /\ lastOp.status = "ok"
           /\ lastOp.user_id = NULL
           /\ lastOp.session_id # NULL
           /\ lastOp.op = "ws_auth" => \A c \in WsConns : wsConn[c].state = "open"

\* C11: after an identity resolution that authenticated a user while the caller
\* presented a session id, on Socket.io 'auth', on the legacy /ws 'auth' and on
\* POST /api/scans, no scan of that session is left without a user.
C11_AuthenticationClaimsTheSession ==
    (/\ lastOp.op \in {"sio_auth", "ws_auth", "rest_create"}
     /\ lastOp.user_id # NULL
     /\ lastOp.presented # NULL)
        => Unclaimed(scans, lastOp.presented) = {}

\* C12: a scan record has, when it is created, exactly one of user_id and
\* session_id: never both and never neither.
C12_ExactlyOneOwnerAtCreation ==
    [][\A s \in DOMAIN scans' \ DOMAIN scans :
          (scans'[s].user_id = NULL) # (scans'[s].session_id = NULL)]_vars

\* the failures of the capture backend that are of the 5xx class
TransientErrors == {"Error code: 500", "Error code: 503"}

FetchEnded(r) ==
    /\ r.pc \in {"c_send_download", "c_download", "c_save", "returned", "raised"}
    /\ r.calls > 0 \/ r.errors # <<>>

\* C14 as stated: at most STEEL_MAX_RETRIES calls of the backend per fetch, the
\* delays slept are the first entries of the schedule 1, 2, 4 in order, and when
\* the fetch has ended the number of delays is the number of attempts minus one.
C14_DelaysAreAttemptsMinusOne ==
    \A p \in CapIds :
        LET r == fetch[p]
        IN  /\ r.calls <= 3
            /\ r.delays = SubSeq(<<1, 2, 4>>, 1, Len(r.delays))
            /\ FetchEnded(r) => Len(r.delays) = r.calls - 1

\* C14 amended: at most STEEL_MAX_RETRIES calls of the backend per fetch; the
\* delays slept are the first entries of the schedule 1, 2, 4 in order; when
\* the fetch has ended and no status message to the websocket raised, the
\* number of delays is the number of calls minus one, and otherwise it is at
\* most the number of calls; two 503 failures followed by a success give the
\* success after exactly the delays 1 and 2.
C14_RetrySchedule ==
    \A p \in CapIds :
        LET r == fetch[p]
            sendRaised == \E i \in 1..Len(r.errors) : r.errors[i] = MSG_EMIT
        IN  /\ r.calls <= 3
            /\ r.delays = SubSeq(<<1, 2, 4>>, 1, Len(r.delays))
            /\ Len(r.delays) <= r.calls
            /\ (FetchEnded(r) /\ ~sendRaised) => Len(r.delays) = r.calls - 1
            /\ (FetchEnded(r) /\ r.errors = <<"Error code: 503", "Error code: 503">>
                   /\ r.calls = 3)
                  => r.delays = <<1, 2>>

\* a fetch that failed twice with 503, succeeded at the third call and returned
C14_Witness ==
    \E p \in CapIds :
        /\ fetch[p].errors = <<"Error code: 503", "Error code: 503">>
        /\ fetch[p].calls = 3
        /\ fetch[p].delays = <<1, 2>>
        /\ fetch[p].pc = "returned"
        /\ fetch[p].result \in {b64encode(img) : img \in Images}

\* the class of failure an error message tells its reader
ErrorKind(msg) ==
    CASE msg = MSG_STEEL_AUTH -> "auth"
      [] msg = MSG_STEEL_RATE -> "rate_limit"
      [] msg = MSG_STEEL_UNAVAILABLE -> "unavailable"
      [] Contains(msg, "after 3 attempts") -> "exhausted"
      [] OTHER -> "generic"

\* C15: when the capture of a scan failed, the error_message persisted with the
\* scan and the message of its scan:failed event tell the class of the failure
\* (auth, rate limit, service unavailable, exhausted attempts) that
\* capture_screenshot reported.
C15_ObserversSeeTheFailureClass ==
    \A s \in Created :
        (run[s].kind = "sp" /\ run[s].pc = "done" /\ run[s].raisedAt = "cap_capture")
            => /\ scans[s].status = "failed"
               /\ ErrorKind(scans[s].error_message) = ErrorKind(run[s].cause)
               /\ \A i \in EventsOfKind(s, {"scan:failed"}) :
                     ErrorKind(events[s][i].body) = ErrorKind(run[s].cause)

\* C16 as stated: a get of a key whose last operation was a save returns the
\* saved payload while now - captured_at <= TTL and a miss after that.
C16_SaveThenGetReturnsPayload ==
    [][\A p \in CapIds :
          (/\ fetch[p].pc = "c_get"
           /\ fetch'[p].pc # "c_get"
           /\ cache[fetch[p].key].saved # NONE)
             => LET put == cache[fetch[p].key].saved[1]
                IN  fetch'[p].cached = IF now - put.at <= CACHE_TTL_SECONDS
                                       THEN put.base64 ELSE NULL]_vars

\* C16 amended: a get that reads the cache file without error, of a key whose
\* last operation was a save that wrote the file, returns the saved payload
\* while now - captured_at <= TTL and a miss after that.
C16_WrittenThenReadReturnsPayload ==
    [][\A p \in CapIds :
          (/\ fetch[p].pc = "c_get"
           /\ fetch'[p].pc # "c_get"
           /\ cache[fetch[p].key].saved # NONE)
             => LET put == cache[fetch[p].key].saved[1]
                    written == cache[fetch[p].key].file
                                  = CacheFile(fetch[p].key, put.at, put.base64)
                IN  (written /\ fetch'[p].read = "ok")
                       => fetch'[p].cached = IF now - put.at <= CACHE_TTL_SECONDS
                                             THEN put.base64 ELSE NULL]_vars

\* a call that found in the cache, exactly TTL seconds after it was saved, the
\* screenshot of an earlier call, and returned it without calling the backend
C16_Witness ==
    \E p \in CapIds :
        /\ fetch[p].pc = "returned"
        /\ fetch[p].calls = 0
        /\ fetch[p].read = "ok"
        /\ fetch[p].result = fetch[p].cached
        /\ fetch[p].cached = cache[fetch[p].key].file.base64
        /\ cache[fetch[p].key].file.kind = "json"
        /\ now - cache[fetch[p].key].file.timestamp = CACHE_TTL_SECONDS

\* C17: an event emitted for a scan is delivered, once, to exactly the
\* connections that are in the room of the scan when it is emitted: in every
\* step, what a connection has received of a scan grows by the event emitted in
\* that step if the connection is in the room before the step, and is
\* unchanged otherwise; joining delivers nothing of what was emitted before,
\* and a connection that left receives nothing further
C17_DeliveredToMembersAtEmission ==
    [][\A c \in Conns, s \in DOMAIN rooms :
          IF Len(events'[s]) > Len(events[s]) /\ c \in rooms[s]
          THEN inbox'[c][s] = Append(inbox[c][s], Len(events'[s]))
          ELSE inbox'[c][s] = inbox[c][s]]_vars

\* a connection joined a room after its first event and has received only
\* later events, and all of them
C17_Witness ==
    \E s \in DOMAIN rooms :
        /\ "c2" \in rooms[s]
        /\ Len(events[s]) >= 3
        /\ inbox["c2"][s] = <<Len(events[s]) - 1, Len(events[s])>>

Increasing(q) == \A i \in 1..Len(q), j \in 1..Len(q) : i < j => q[i] < q[j]

C20_SynthesisAfterBothSearches ==
    \A s \in Created :
        run[s].kind = "sp" =>
            /\ (run[s].search["google"] = "idle") <=> (run[s].search["bing"] = "idle")
            /\ (run[s].pc \in {"wf_seo", "wf_emit95"} \/ run[s].raisedAt = "wf_seo")
                   => \A e \in Engines : run[s].search[e] \in SearchFinished

\* the synthesis has returned in a structured scan, after both searches did
C20_Witness ==
    \E s \in Created :
        /\ run[s].kind = "sp"
        /\ run[s].pc = "wf_emit95"
        /\ \A e \in Engines : run[s].search[e] \in SearchFinished

\* the positions of url that hold its scheme or its host: up to the ':' of the
\* scheme, and in the netloc after its userinfo and before its port
InSchemeOrHost(url, i) ==
    LET parsed == urlparse(url)
        first == Len(parsed.scheme) + 4
        last == first + Len(parsed.netloc) - 1
        at == {j \in first..last : SubSeq(url, j, j) = "@"}
        host == IF at = {} THEN first ELSE 1 + CHOOSE j \in at : \A k \in at : k <= j
        colons == {j \in host..last : SubSeq(url, j, j) = ":"}
        port == IF colons = {} THEN last + 1 ELSE CHOOSE j \in colons : \A k \in colons : j <= k
    IN  \/ i <= Len(parsed.scheme)
        \/ parsed.netloc # "" /\ i >= host /\ i < port

\* C23: normalize_url is idempotent, and its result differs from its argument
\* only in the case of letters of the scheme and of the host: every other
\* character, those of path, query and fragment included, is kept as it is
C23_NormalizeIdempotentCaseOnly ==
    call.fn = "normalize_url" =>
        /\ normalize_url(call.value) = call.value
        /\ Len(call.value) = Len(call.url)
        /\ \A i \in 1..Len(call.url) :
               \/ SubSeq(call.value, i, i) = SubSeq(call.url, i, i)
               \/ /\ SubSeq(call.value, i, i) = LowerChar(SubSeq(call.url, i, i))
                  /\ InSchemeOrHost(call.url, i)

\* the hostname of a url: its netloc without userinfo and port, in lower case
hostname(url) ==
    LET netloc == urlparse(url).netloc
        at == {j \in 1..Len(netloc) : SubSeq(netloc, j, j) = "@"}
        host == IF at = {} THEN netloc
                ELSE From(netloc, 1 + CHOOSE j \in at : \A k \in at : k <= j)
        colon == FindFrom(host, ":", 1)
    IN  Lower(IF colon = 0 THEN host ELSE SubSeq(host, 1, colon - 1))

\* the hostname without one leading 'www.'
BareHost(url) ==
    IF StartsWith(hostname(url), "www.") THEN From(hostname(url), 5) ELSE hostname(url)

\* C22: find_url_ranking returns the 1-based position of the first result
\* whose hostname, in lower case and without a leading 'www.', is that of the
\* target, whatever the schemes and paths, and None iff no result matches
C22_RankOfFirstHostnameMatch ==
    call.fn = "find_url_ranking" =>
        LET matches == {i \in 1..Len(call.results) :
                           /\ call.results[i] # ""
                           /\ BareHost(call.results[i]) = BareHost(call.url)}
        IN  /\ call.rank = NONE <=> matches = {}
            /\ call.rank # NONE =>
                   /\ call.rank[1] \in matches
                   /\ \A j \in matches : call.rank[1] <= j

\* C21: a search call that fails does not abort the other: the gather raises
\* only when a search call raised, analyze_seo_node is given what each call
\* handed back (the results of the one that succeeded, with their ranking) and
\* a scan whose search call raised ends failed
C21_SearchFailureIsolated ==
    \A s \in Created :
        run[s].kind = "sp" =>
            /\ run[s].raisedAt = "wf_gather" =>
                   \E e \in Engines : run[s].search[e] = "raised"
            /\ run[s].seo # NONE =>
                   \A e \in Engines :
                       /\ run[s].search[e] \in SearchFinished
                       /\ run[s].search[e] = "returned" =>
                              /\ run[s].seo[1].results[e] = EngineResults[e]
                              /\ run[s].seo[1].ranking[e] =
                                     find_url_ranking(ScanUrl, EngineResults[e])
            /\ (Ended(s) /\ \E e \in Engines : run[s].search[e] = "raised") =>
                   scans[s].status = "failed"

\* C24: a failed upload of the screenshot to the blob store (an exception, or
\* False returned) never fails the scan: no exception of the scan was raised by
\* the upload, and the statement after the helper is reached with no exception
\* pending, so that the following steps run
C24_UploadFailureIsNotFatal ==
    \A s \in Created :
        (run[s].kind = "sp" /\ run[s].upload \in {"false", "raised"}) =>
            /\ run[s].raisedAt # "cap_upload"
            /\ run[s].pc = SpNextPc("cap_upload", run[s].mode) => run[s].exc = NULL

\* the upload of a scan raised and the scan ended completed, all events emitted
C24_Witness ==
    \E s \in Created :
        /\ run[s].kind = "sp"
        /\ run[s].upload = "raised"
        /\ run[s].pc = "done"
        /\ scans[s].status = "completed"
        /\ Len(events[s]) > 0
        /\ events[s][Len(events[s])].kind = "scan:completed"

\* an event as observers name it: the percentage of a progress event, the kind
\* of any other
Label(ev) == IF ev.kind = "scan:progress" THEN ToString(ev.percent) ELSE ev.kind

\* the events of a structured scan that runs to completion, in order
StructuredOrder ==
    <<"10", "scan:screenshot_loading", "15", "30", "scan:screenshot",
      "35", "60", "65", "75", "80", "95", "100", "scan:completed">>

IsPrefix(p, q) == Len(p) <= Len(q) /\ SubSeq(q, 1, Len(p)) = p

\* C25: the events of a structured scan are emitted in the order progress 10,
\* screenshot loading, 15, 30, screenshot preview, 35, 60, 65, 75, 80, 95, 100,
\* completed; a failure cuts the sequence where it happens and scan:failed
\* follows directly, so that a scan whose work has ended has emitted the whole
\* sequence or a part of it followed by scan:failed
C25_StructuredEventOrder ==
    \A s \in Created :
        (run[s].kind = "sp" /\ run[s].mode = "structured") =>
            LET labels == [i \in 1..Len(events[s]) |-> Label(events[s][i])]
                n == Len(labels)
                failed == n > 0 /\ labels[n] = "scan:failed"
            IN  /\ IF failed
                   THEN /\ IsPrefix(SubSeq(labels, 1, n - 1), StructuredOrder)
                        /\ n - 1 < Len(StructuredOrder)
                   ELSE IsPrefix(labels, StructuredOrder)
                /\ Ended(s) => (failed \/ labels = StructuredOrder)

\* a url is malformed when it has no http or https scheme, or no host
Malformed(url) ==
    urlparse(url).scheme \notin {"http", "https"} \/ hostname(url) = ""

\* the entry points that take a url to scan
SubmitOps == {"sio_analyze", "rest_create", "ws_analyze", "process_scan"}

\* C26: on every entry point a submission with a malformed url is answered
\* with a validation error, and it creates no Website and no Scan record: the
\* record store, the background work and the rooms are as they were before it
C26_MalformedUrlRejected ==
    [][(/\ lastOp'.op \in SubmitOps
        /\ <<lastOp, scans, websites>>' # <<lastOp, scans, websites>>
        /\ Malformed(lastOp'.url))
           => /\ lastOp'.status = "invalid_url"
              /\ UNCHANGED <<websites, scans, run, events, rooms, minted>>]_vars

Listed(user_id, status) ==
    {s \in Created : /\ scans[s].user_id = user_id
                     /\ status # NULL => scans[s].status = status}

Owns(scan, user_id, session_id) ==
    \/ user_id # NULL /\ scan.user_id = user_id
    \/ scan.user_id = NULL /\ session_id # NULL /\ scan.session_id = session_id

\* C28: GET scan answers 404 iff the id is unknown; otherwise 401 iff the
\* caller has neither a verified user nor a session id; otherwise 403 iff the
\* caller does not own the scan; otherwise the scan, and only then the scan
C28_GetScanOutcome ==
    lastOp.op = "rest_get" =>
        LET id == lastOp.scan_id[1]
            anonymous == lastOp.user_id = NULL /\ lastOp.presented = NULL
        IN  /\ lastOp.status = "404" <=> id \notin Created
            /\ id \in Created =>
                   /\ lastOp.status = "401" <=> anonymous
                   /\ ~anonymous =>
                          (lastOp.status = "403"
                              <=> ~Owns(scans[id], lastOp.user_id, lastOp.presented))
            /\ lastOp.status \in {"404", "401", "403", "200"}
            /\ lastOp.data = IF lastOp.status = "200" THEN <<id>> ELSE <<>>

\* the scan waits for a backend: its capture call or one of its searches is in
\* progress
WaitingOnBackend(s) ==
    /\ SpRunning(s)
    /\ \/ run[s].pc = "cap_capture"
       \/ \E e \in Engines : run[s].search[e] = "running"

\* C30: while a scan waits on a backend call, every other scan in flight can
\* take its next step
C30_ScansDoNotBlockOneAnother ==
    \A s, other \in Created :
        (/\ s # other
         /\ WaitingOnBackend(s)
         /\ SpRunning(other) /\ other \in InFlight)
            => ENABLED process_scan(other)

\* the lookup of the call returned a screenshot (if cached_screenshot:)
Hit(r) == r.cached \notin {NULL, ""}

\* C32 as stated: a call of capture_screenshot that ended has called the
\* capture backend if and only if its cache lookup missed
C32_BackendCalledIffMiss ==
    \A p \in DOMAIN fetch :
        fetch[p].pc \in {"returned", "raised"}
            => (fetch[p].calls > 0 <=> ~Hit(fetch[p]))

\* C32 amended: the backend is called only after a lookup that missed; a call
\* that missed and returned has called the backend and returns the fetched
\* screenshot; a call that missed and raised without a backend call had no
\* Steel key or could not send a status message; a call that hit returns the
\* cached payload (or raises when its status message cannot be sent) without
\* a backend call; the file of a key changes only in the lookup (an expired
\* entry is removed) and in the save that follows a successful fetch, so a
\* step that raises leaves the cache as it was
C32_BackendOnlyOnMissWriteOnlyAfterFetch ==
    [][/\ \A p \in DOMAIN fetch :
             LET r == fetch'[p]
             IN  /\ r.calls > 0 => r.pc # "c_get" /\ ~Hit(r)
                 /\ r.pc = "returned" =>
                        IF Hit(r)
                        THEN r.calls = 0 /\ r.result = r.cached
                        ELSE r.calls >= 1 /\ r.result = b64encode(r.shot)
                 /\ (r.pc = "raised" /\ r.calls = 0) =>
                        IF Hit(r)
                        THEN r.ws /\ r.exc = MSG_EMIT
                        ELSE \/ r.exc = capture_error_message(MSG_NO_STEEL_KEY)
                             \/ r.ws /\ r.errors = <<MSG_EMIT>>
                 /\ (r.pc = "raised" /\ fetch[p].pc # "raised") =>
                        \A k \in DOMAIN cache : cache'[k].file = cache[k].file
       /\ \A k \in DOMAIN cache :
             cache'[k].file # cache[k].file =>
                \E p \in DOMAIN fetch :
                    /\ fetch[p].key = k
                    /\ \/ /\ fetch[p].pc = "c_get"
                          /\ cache[k].file.kind = "json"
                          /\ IsExpired(cache[k].file.timestamp, now)
                          /\ cache'[k].file = NoFile
                       \/ /\ fetch[p].pc = "c_save"
                          /\ fetch[p].calls >= 1
                          /\ fetch[p].shot \in Images
                          /\ fetch'[p].pc = "returned"]_vars

\* a call without a websocket missed the cache, called the backend, wrote the
\* entry of its key and returned the screenshot it fetched
C32_Witness ==
    \E p \in DOMAIN fetch :
        /\ fetch[p].pc = "returned"
        /\ ~fetch[p].ws
        /\ ~Hit(fetch[p])
        /\ fetch[p].calls >= 1
        /\ cache[fetch[p].key].file = CacheFile(fetch[p].key, now, fetch[p].result)
        /\ cache[fetch[p].key].saved # NONE

SweepExpired(k) ==
    cache[k].file.kind = "json" /\ IsExpired(cache[k].file.timestamp, now)

C40_CacheFailuresNeverFailACapture ==
    [][\A p \in DOMAIN fetch :
          /\ (fetch[p].pc = "c_get" /\ fetch'[p].pc # "c_get") =>
                ((fetch'[p].read = "error" \/ cache[fetch[p].key].file.kind = "corrupt")
                    => /\ fetch'[p].cached = NULL
                       /\ fetch'[p].pc = "c_client"
                       /\ fetch'[p].exc = NULL)
          /\ (fetch[p].pc = "c_save" /\ fetch'[p].pc # "c_save") =>
                /\ fetch'[p].pc = "returned"
                /\ fetch'[p].exc = NULL
                /\ fetch'[p].result = b64encode(fetch[p].shot)]_vars

\* a call could not read the entry of its key, fetched the screenshot from the
\* backend, could not write it to the cache, and returned it
C40_Witness ==
    \E p \in DOMAIN fetch :
        /\ fetch[p].pc = "returned"
        /\ fetch[p].read = "error"
        /\ fetch[p].found.kind = "json"
        /\ fetch[p].calls >= 1
        /\ fetch[p].result = b64encode(fetch[p].shot)
        /\ cache[fetch[p].key].saved # NONE
        /\ cache[fetch[p].key].saved[1].io # "ok"
        /\ cache[fetch[p].key].file # CacheFile(fetch[p].key, now, fetch[p].result)

\* every call has ended by returning a screenshot after a lookup that missed
AllMissedAndReturned ==
    \A p \in DOMAIN fetch : fetch[p].pc = "returned" /\ ~Hit(fetch[p])

\* the arguments of the last save of key k
LastPut(k) == cache[k].saved[1]

\* C31 as stated: when the concurrent calls of one key have all missed and
\* returned, the cache holds the entry of the last writer
C31_CacheHoldsLastWritersPayload ==
    AllMissedAndReturned =>
        \A k \in DOMAIN cache :
            /\ cache[k].saved # NONE
            /\ cache[k].file = CacheFile(k, LastPut(k).at, LastPut(k).base64)

\* C31 amended: every call whose lookup missed and that returned has called
\* the backend itself and returns its own screenshot; when all have, the last
\* save was made by one of them and, if it wrote the file, the file of the
\* key is the entry of that save; the file of a key is at all times absent,
\* unreadable, or the complete entry of one save; a lookup that hits returns
\* the payload of the one entry it found
C31_LastSuccessfulWriterWins ==
    /\ \A k \in DOMAIN cache :
          \/ cache[k].file \in {NoFile, CORRUPT}
          \/ \E img \in Images :
                cache[k].file = CacheFile(k, cache[k].file.timestamp, b64encode(img))
    /\ \A p \in DOMAIN fetch :
          /\ Hit(fetch[p]) =>
                /\ fetch[p].found = CacheFile(fetch[p].key, fetch[p].found.timestamp,
                                              fetch[p].cached)
                /\ \E img \in Images : fetch[p].cached = b64encode(img)
          /\ (fetch[p].pc = "returned" /\ ~Hit(fetch[p])) =>
                /\ fetch[p].calls >= 1
                /\ fetch[p].result = b64encode(fetch[p].shot)
    /\ AllMissedAndReturned =>
          \A k \in DOMAIN cache :
              /\ cache[k].saved # NONE
              /\ \E p \in DOMAIN fetch :
                    fetch[p].key = k /\ fetch[p].result = LastPut(k).base64
              /\ LastPut(k).io = "ok"
                    => cache[k].file = CacheFile(k, LastPut(k).at, LastPut(k).base64)
              /\ LastPut(k).io = "torn" => cache[k].file = CORRUPT

\* two calls for one url both missed the cache, each fetched a screenshot of
\* its own, both wrote it, and the cache holds the entry of the last save
C31_Witness ==
    /\ AllMissedAndReturned
    /\ \E p, q \in DOMAIN fetch :
          /\ p # q
          /\ fetch[p].key = fetch[q].key
          /\ fetch[p].read = "ok" /\ fetch[q].read = "ok"
          /\ fetch[p].found = NoFile /\ fetch[q].found = NoFile
          /\ fetch[p].result # fetch[q].result
          /\ cache[fetch[p].key].saved # NONE
          /\ LastPut(fetch[p].key).io = "ok"
          /\ cache[fetch[p].key].file = CacheFile(fetch[p].key, now, fetch[q].result)

\* C35: once scan:completed or scan:failed has been emitted for a scan, no
\* step emits another event for that scan: the terminal event stays the last
\* event of the scan
C35_TerminalEventIsLast ==
    [][\A s \in Created :
          EventsOfKind(s, TerminalKinds) # {} => events'[s] = events[s]]_vars

\* a scan that emitted progress events failed, emitted scan:failed as its last
\* event, and its unit of work returned
C35_Witness ==
    \E s \in Created :
        /\ run[s].kind = "sp" /\ run[s].pc = "done"
        /\ Len(events[s]) > 1
        /\ events[s][Len(events[s])].kind = "scan:failed"
        /\ EventsOfKind(s, {"scan:progress"}) # {}

\* the stages of the pipeline: capture, inference, search, synthesis
StagePcs == {"cap_capture", "wf_analyze", "wf_gather", "wf_seo"}

\* C36: no run of process_scan in which a stage of the pipeline failed ends
\* with an exception leaving process_scan
C36_StageFailureNeverLeavesProcessScan ==
    \A s \in Created :
        (run[s].kind = "sp" /\ run[s].raisedAt \in StagePcs) => run[s].pc # "raised"

\* the persisted status a terminal event announces
StatusOf(kind) == IF kind = "scan:completed" THEN "completed" ELSE "failed"

\* C37: a step that emits scan:completed or scan:failed for a scan finds the
\* persisted status of the scan equal to the kind of the event and leaves it
\* so, and the status of a scan whose terminal event was emitted stays equal to
\* the kind of that event
C37_StatusAgreesWithTerminalEvent ==
    [][\A s \in Created :
          /\ (/\ Len(events'[s]) > Len(events[s])
              /\ events'[s][Len(events'[s])].kind \in TerminalKinds)
                => /\ scans[s].status = StatusOf(events'[s][Len(events'[s])].kind)
                   /\ scans'[s].status = scans[s].status
          /\ \A i \in EventsOfKind(s, TerminalKinds) :
                /\ scans[s].status = StatusOf(events[s][i].kind)
                /\ scans'[s].status = scans[s].status]_vars

\* a scan is persisted as completed, its room was sent scan:completed as the
\* last event, and its unit of work returned
C37_Witness ==
    \E s \in Created :
        /\ run[s].kind = "sp" /\ run[s].pc = "done"
        /\ scans[s].status = "completed"
        /\ events[s] # <<>>
        /\ events[s][Len(events[s])].kind = "scan:completed"

\* C38: an analyze on a connection whose most recent auth resolved to
\* Anonymous creates its scan without a user_id, and the identity the
\* connection acts with (the one handle_join reads too) has no user_id
C38_AnonymousAuthCarriesNoUser ==
    \A c \in SioConns :
        ~sioSess[c].authenticated =>
            /\ sioSess[c].user_id = NULL
            /\ (lastOp.op = "sio_analyze" /\ lastOp.status = "ok"
                    /\ run[Cardinality(Created)].conn = c)
                  => lastOp.user_id = NULL

\* the step is the handling of a 'join' sent by connection c
JoinStepOf(c) ==
    /\ joins' = joins + 1
    /\ lastOp'.op = "sio_join"
    /\ lastOp'.data = <<c>>

\* C39: a connection enters the room of a scan only in the analyze that
\* created the scan on that connection, or in a join for which
\* can_access_scan held for the identity of its session at that moment; a
\* join that is denied, a join before the first auth of the connection, and a
\* join without scan_id are answered with an error and leave every room as
\* it was
C39_MembershipOnlyByCreationOrAccess ==
    [][/\ \A c \in Conns, s \in DOMAIN rooms' :
             (c \in rooms'[s] /\ (s \in DOMAIN rooms => c \notin rooms[s])) =>
                IF s \notin DOMAIN rooms
                THEN /\ lastOp'.op = "sio_analyze"
                     /\ run'[s].conn = c
                     /\ s \notin Created
                ELSE /\ JoinStepOf(c)
                     /\ lastOp'.scan_id = Some(s)
                     /\ lastOp'.status = "joined"
                     /\ can_access_scan(scans, s, sioSess[c].user_id,
                                        sioSess[c].session_id)
       /\ \A c \in Conns :
             JoinStepOf(c) =>
                /\ lastOp'.status \in {"joined", MSG_SCAN_ID_REQUIRED, MSG_ACCESS_DENIED}
                /\ lastOp'.scan_id = NONE => lastOp'.status = MSG_SCAN_ID_REQUIRED
                /\ sioSess[c] = NoSession => lastOp'.status # "joined"
                /\ (/\ lastOp'.scan_id # NONE
                    /\ ~can_access_scan(scans, lastOp'.scan_id[1], sioSess[c].user_id,
                                        sioSess[c].session_id))
                      => lastOp'.status = MSG_ACCESS_DENIED
                /\ lastOp'.status # "joined" => rooms' = rooms]_vars

\* a connection that did not create the scan joined its room with the session
\* of the scan, after which the room holds it and the creator
C39_Witness ==
    /\ lastOp.op = "sio_join"
    /\ lastOp.status = "joined"
    /\ \E c \in Conns, s \in DOMAIN rooms :
          /\ lastOp.data = <<c>>
          /\ lastOp.scan_id = Some(s)
          /\ run[s].conn # c
          /\ c \in rooms[s]
          /\ run[s].conn \in rooms[s]

====
